---- MODULE Spec2Model ----
(***************************************************************************)
(* Lcontext MCP server (src/src/index.ts): the tool-call handler, the      *)
(* remote data client apiRequest, the parameter schemas and the report     *)
(* formatters, as a state machine over in-flight tool calls.               *)
(*                                                                         *)
(* Representation.                                                         *)
(*  - A JSON object is a function from the names of the fields it carries  *)
(*    to their values; a field the object lacks is outside its DOMAIN      *)
(*    (JavaScript's undefined).                                            *)
(*  - A caller-supplied argument is a tagged value [t |-> type, v |-> x],  *)
(*    because the caller may send any JSON type for any field.             *)
(*  - A text is the sequence of its lines (the string split at "\n").      *)
(*  - Numbers are integers; a rate is kept in tenths of a percent before   *)
(*    it is printed.                                                       *)
(***************************************************************************)
EXTENDS Integers, Sequences, FiniteSets, TLC

VARIABLES
  API_KEY,   \* process.env.LCONTEXT_API_KEY as read at start-up ("" when unset)
  host,      \* the default locale and the time zone of the machine of the process
  calls,     \* the tool calls: what each was asked, did and returned
  probe,     \* one invocation of apiRequest by a caller that passes options
  proc,      \* the process: its command line, how far it got, its update check
  disk       \* the files at process.execPath, at that path + .new and + .backup

vars == <<API_KEY, host, calls, probe, proc, disk>>

----------------------------------------------------------------------------
(* Bounds of the model *)

\* calls that may be in flight at once in Spec
MaxCalls == 2

\* how far past its cap a list of a remote payload may run
MaxOver == 2

\* the largest count a period statistic of a remote payload carries
MaxCount == 3

\* the longest path or visitor id a caller of SpecArgs supplies
MaxPathLen == 2

\* how many optional arguments a caller of SpecArgs supplies at most
MaxFields == 2

----------------------------------------------------------------------------
(* JavaScript helpers *)

Has(o, f) == f \in DOMAIN o

\* `o.f` used as a condition, for a string field: present and non-empty
TruthyStr(o, f) == Has(o, f) /\ o[f] # ""

\* `o.f` used as a condition, for a numeric field: present and non-zero
TruthyNum(o, f) == Has(o, f) /\ o[f] # 0

\* `o.f || 0` for a numeric field
NumOr0(o, f) == IF Has(o, f) THEN o[f] ELSE 0

\* `${o.f}` for a numeric field: an absent field prints "undefined"
NumStr(o, f) == IF Has(o, f) THEN ToString(o[f]) ELSE "undefined"

\* `${o.f}` for a string field
StrStr(o, f) == IF Has(o, f) THEN o[f] ELSE "undefined"

\* s contains sub as a substring
Contains(s, sub) ==
  \E i \in 1..(Len(s) - Len(sub) + 1) : SubSeq(s, i, i + Len(sub) - 1) = sub

StartsWith(s, prefix) ==
  /\ Len(s) >= Len(prefix)
  /\ SubSeq(s, 1, Len(prefix)) = prefix

RECURSIVE SumOver(_, _)
\* Array.prototype.reduce((sum, s) => sum + (s.f || 0), 0)
SumOver(list, f) ==
  IF list = <<>> THEN 0 ELSE NumOr0(Head(list), f) + SumOver(Tail(list), f)

\* Array.prototype.slice(0, n)
Slice0(list, n) == SubSeq(list, 1, IF Len(list) < n THEN Len(list) ELSE n)

RECURSIVE TrimLeft(_)
TrimLeft(lines) ==
  IF lines # <<>> /\ Head(lines) = "" THEN TrimLeft(Tail(lines)) ELSE lines

RECURSIVE TrimRight(_)
TrimRight(lines) ==
  IF lines # <<>> /\ lines[Len(lines)] = ""
  THEN TrimRight(SubSeq(lines, 1, Len(lines) - 1))
  ELSE lines

\* String.prototype.trim() on a text kept as its lines: the blank lines at
\* both ends go (no line of a report starts or ends with other white space,
\* except the indented rows, which are never first or last after a header)
Trim(lines) == TrimRight(TrimLeft(lines))

----------------------------------------------------------------------------
(* Configuration: API_KEY = process.env.LCONTEXT_API_KEY *)

NoKey == ""
KeyValues == {NoKey, "lc_key"}

----------------------------------------------------------------------------
(* Parameter schemas (zod) *)

\* Tagged argument values
Str(s) == [t |-> "string", v |-> s]
Num(n) == [t |-> "number", v |-> n]
Null == [t |-> "null", v |-> 0]

FString == [type |-> "string", optional |-> FALSE, hasDefault |-> FALSE]
FStringOpt == [type |-> "string", optional |-> TRUE, hasDefault |-> FALSE]
FNumber == [type |-> "number", optional |-> FALSE, hasDefault |-> FALSE]
FNumberOpt == [type |-> "number", optional |-> TRUE, hasDefault |-> FALSE]
FNumberDef(n) ==
  [type |-> "number", optional |-> TRUE, hasDefault |-> TRUE, default |-> Num(n)]
FEnumOpt(S) ==
  [type |-> "enum", optional |-> TRUE, hasDefault |-> FALSE, values |-> S]
FEnumDef(S, d) ==
  [type |-> "enum", optional |-> TRUE, hasDefault |-> TRUE, values |-> S,
   default |-> Str(d)]

PeriodTypes == {"day", "week"}
EngagementTrends == {"increasing", "stable", "decreasing"}
OverallSentiments == {"positive", "negative", "neutral", "mixed"}
Sentiments == {"positive", "negative", "neutral"}

getPageContextSchema ==
  [path |-> FString, startDate |-> FStringOpt, endDate |-> FStringOpt,
   periodType |-> FEnumDef(PeriodTypes, "day")]

listPagesSchema == [limit |-> FNumberDef(50), search |-> FStringOpt]

getElementContextSchema ==
  [elementLabel |-> FStringOpt, elementId |-> FStringOpt, pagePath |-> FStringOpt]

getAppContextSchema ==
  [periodType |-> FEnumDef(PeriodTypes, "day"), limit |-> FNumberDef(7)]

getVisitorsSchema ==
  [limit |-> FNumberDef(20), offset |-> FNumberDef(0), segmentId |-> FNumberOpt,
   search |-> FStringOpt, firstVisitAfter |-> FStringOpt,
   firstVisitBefore |-> FStringOpt, lastVisitAfter |-> FStringOpt,
   lastVisitBefore |-> FStringOpt,
   engagementTrend |-> FEnumOpt(EngagementTrends),
   overallSentiment |-> FEnumOpt(OverallSentiments)]

getVisitorDetailSchema == [visitorId |-> FString]

getSessionsSchema ==
  [limit |-> FNumberDef(20), offset |-> FNumberDef(0), visitorId |-> FStringOpt,
   sentiment |-> FEnumOpt(Sentiments), startDate |-> FStringOpt,
   endDate |-> FStringOpt, search |-> FStringOpt, minDuration |-> FNumberOpt,
   maxDuration |-> FNumberOpt, minEventsCount |-> FNumberOpt,
   maxEventsCount |-> FNumberOpt, pagePath |-> FStringOpt]

getSessionDetailSchema == [sessionId |-> FNumber]

getUserFlowsSchema ==
  [limit |-> FNumberOpt, category |-> FStringOpt, minSessions |-> FNumberOpt]

\* a z.object whose every field were declared .optional(): an absent field
\* passes whatever the schema says
FieldOkAbsent(spec, bag, f) ==
  IF ~Has(bag, f)
  THEN TRUE
  ELSE CASE spec.type = "string" -> bag[f].t = "string"
         [] spec.type = "number" -> bag[f].t = "number"
         [] spec.type = "enum" -> bag[f].t = "string" /\ bag[f].v \in spec.values

\* a z.object whose z.enum fields take any string
FieldOkAnyString(spec, bag, f) ==
  IF ~Has(bag, f)
  THEN spec.optional
  ELSE CASE spec.type = "string" -> bag[f].t = "string"
         [] spec.type = "number" -> bag[f].t = "number"
         [] spec.type = "enum" -> bag[f].t = "string"

\* one field of a z.object: does the supplied value (if any) pass
FieldOk(spec, bag, f) ==
  IF ~Has(bag, f)
  THEN spec.optional
  ELSE CASE spec.type = "string" -> bag[f].t = "string"
         [] spec.type = "number" -> bag[f].t = "number"
         [] spec.type = "enum" -> bag[f].t = "string" /\ bag[f].v \in spec.values

\* the fields a z.object rejects, each an issue of the ZodError
Issues(schema, bag) == {f \in DOMAIN schema : ~FieldOk(schema[f], bag, f)}

\* the parsed object: known fields kept, unknown keys stripped, defaults filled
Parsed(schema, bag) ==
  LET kept == {f \in DOMAIN schema : Has(bag, f) \/ schema[f].hasDefault}
  IN [f \in kept |-> IF Has(bag, f) THEN bag[f] ELSE schema[f].default]

\* schema.parse(x): x is [given |-> is it an object at all, bag |-> its fields].
\* A non-object (undefined) is one issue at the root; otherwise one issue per
\* rejected field.  The result carries the parsed object or the issue paths.
ZodParse(schema, x) ==
  IF ~x.given
  THEN [ok |-> FALSE, issues |-> {"(root)"}, value |-> <<>>]
  ELSE IF Issues(schema, x.bag) # {}
       THEN [ok |-> FALSE, issues |-> Issues(schema, x.bag), value |-> <<>>]
       ELSE [ok |-> TRUE, issues |-> {}, value |-> Parsed(schema, x.bag)]

\* `request.params.arguments || {}`
OrEmpty(x) == IF x.given THEN x ELSE [given |-> TRUE, bag |-> <<>>]

----------------------------------------------------------------------------
(* Percent-encoding *)

\* characters encodeURIComponent leaves alone: A-Z a-z 0-9 - _ . ! ~ * ' ( )
UriUnreserved ==
  {"a", "b", "c", "d", "e", "f", "g", "h", "i", "j", "k", "l", "m", "n", "o",
   "p", "q", "r", "s", "t", "u", "v", "w", "x", "y", "z",
   "A", "B", "C", "D", "E", "F", "G", "H", "I", "J", "K", "L", "M", "N", "O",
   "P", "Q", "R", "S", "T", "U", "V", "W", "X", "Y", "Z",
   "0", "1", "2", "3", "4", "5", "6", "7", "8", "9",
   "-", "_", ".", "!", "~", "*", "'", "(", ")"}

\* the %XX escape of an ASCII character outside the unreserved set
PercentOf(ch) ==
  CASE ch = "/" -> "%2F"
    [] ch = "?" -> "%3F"
    [] ch = "#" -> "%23"
    [] ch = "&" -> "%26"
    [] ch = "=" -> "%3D"
    [] ch = "%" -> "%25"
    [] ch = " " -> "%20"
    [] ch = ":" -> "%3A"
    [] ch = "+" -> "%2B"
    [] ch = "\"" -> "%22"

RECURSIVE encodeURIComponent(_)
encodeURIComponent(s) ==
  IF s = "" THEN ""
  ELSE LET ch == SubSeq(s, 1, 1)
       IN (IF ch \in UriUnreserved THEN ch ELSE PercentOf(ch))
          \o encodeURIComponent(SubSeq(s, 2, Len(s)))

\* URLSearchParams.toString(): application/x-www-form-urlencoded; leaves
\* alphanumerics and * - . _ alone, writes a space as +, escapes the rest
FormUnreserved == UriUnreserved \ {"!", "~", "'", "(", ")"}

FormPercentOf(ch) ==
  CASE ch = " " -> "+"
    [] ch = "!" -> "%21"
    [] ch = "~" -> "%7E"
    [] ch = "'" -> "%27"
    [] ch = "(" -> "%28"
    [] ch = ")" -> "%29"
    [] OTHER -> PercentOf(ch)

RECURSIVE FormEncode(_)
FormEncode(s) ==
  IF s = "" THEN ""
  ELSE LET ch == SubSeq(s, 1, 1)
       IN (IF ch \in FormUnreserved THEN ch ELSE FormPercentOf(ch))
          \o FormEncode(SubSeq(s, 2, Len(s)))

RECURSIVE SearchParamsToString(_)
\* params: the appended <<name, value>> pairs, in order
SearchParamsToString(params) ==
  IF params = <<>> THEN ""
  ELSE FormEncode(Head(params)[1]) \o "=" \o FormEncode(Head(params)[2])
       \o (IF Len(params) > 1 THEN "&" ELSE "")
       \o SearchParamsToString(Tail(params))

\* Number.prototype.toString() of an integer
NumberToString(n) == ToString(n)

\* a validated argument used as a condition: absent, "", 0 and null are falsy
ArgTruthy(args, f) ==
  /\ Has(args, f)
  /\ CASE args[f].t = "string" -> args[f].v # ""
       [] args[f].t = "number" -> args[f].v # 0
       [] OTHER -> FALSE

\* a validated argument converted to a string (template literal, toString(),
\* encodeURIComponent): an absent one reads "undefined"
ArgString(args, f) ==
  IF ~Has(args, f) THEN "undefined"
  ELSE CASE args[f].t = "string" -> args[f].v
         [] args[f].t = "number" -> NumberToString(args[f].v)
         [] OTHER -> "null"

\* `params.append(f, args.f)` with no test of args.f
AppendStrAlways(args, f) == <<<<f, ArgString(args, f)>>>>

\* `if (args.f) params.append(f, args.f)` for a string field
AppendStr(args, f) ==
  IF ArgTruthy(args, f) THEN <<<<f, ArgString(args, f)>>>> ELSE <<>>

\* `if (args.f) params.append(f, args.f.toString())` for a numeric field
AppendNum(args, f) ==
  IF ArgTruthy(args, f) THEN <<<<f, ArgString(args, f)>>>> ELSE <<>>

\* `if (args.f) params.append(f, args.f.toString())` in the place of the
\* test against undefined
AppendDefinedTruthy(args, f) ==
  IF ArgTruthy(args, f) THEN <<<<f, ArgString(args, f)>>>> ELSE <<>>

\* `if (args.f !== undefined) params.append(f, args.f.toString())`
AppendDefined(args, f) ==
  IF Has(args, f) THEN <<<<f, ArgString(args, f)>>>> ELSE <<>>

\* `${queryString ? `?${queryString}` : ''}`
QuerySuffix(params) ==
  LET queryString == SearchParamsToString(params)
  IN IF queryString # "" THEN "?" \o queryString ELSE ""

----------------------------------------------------------------------------
(* Endpoints built by the tool branches, from the validated arguments *)

\* the path put into the endpoint as it came, with no encodeURIComponent
PageContextEndpointRaw(args) ==
  "/api/mcp/pages/" \o ArgString(args, "path")
  \o QuerySuffix(AppendStr(args, "startDate") \o AppendStr(args, "endDate")
                 \o AppendStr(args, "periodType"))

PageContextEndpoint(args) ==
  "/api/mcp/pages/" \o encodeURIComponent(ArgString(args, "path"))
  \o QuerySuffix(AppendStr(args, "startDate") \o AppendStr(args, "endDate")
                 \o AppendStr(args, "periodType"))

ListPagesEndpoint(args) ==
  "/api/mcp/pages" \o QuerySuffix(AppendNum(args, "limit") \o AppendStr(args, "search"))

ElementContextEndpoint(args) ==
  "/api/mcp/elements?"
  \o SearchParamsToString(AppendStr(args, "elementLabel")
                          \o AppendStr(args, "elementId")
                          \o AppendStr(args, "pagePath"))

AppContextEndpoint(args) ==
  "/api/mcp/app-context"
  \o QuerySuffix(AppendStr(args, "periodType") \o AppendNum(args, "limit"))

VisitorsEndpoint(args) ==
  "/api/mcp/visitors"
  \o QuerySuffix(AppendNum(args, "limit") \o AppendNum(args, "offset")
                 \o AppendNum(args, "segmentId") \o AppendStr(args, "search")
                 \o AppendStr(args, "firstVisitAfter")
                 \o AppendStr(args, "firstVisitBefore")
                 \o AppendStr(args, "lastVisitAfter")
                 \o AppendStr(args, "lastVisitBefore")
                 \o AppendStr(args, "engagementTrend")
                 \o AppendStr(args, "overallSentiment"))

VisitorDetailEndpoint(args) ==
  "/api/mcp/visitors/" \o encodeURIComponent(ArgString(args, "visitorId"))

SessionsEndpoint(args) ==
  "/api/mcp/sessions"
  \o QuerySuffix(AppendNum(args, "limit") \o AppendNum(args, "offset")
                 \o AppendStr(args, "visitorId") \o AppendStr(args, "sentiment")
                 \o AppendStr(args, "startDate") \o AppendStr(args, "endDate")
                 \o AppendStr(args, "search")
                 \o AppendDefined(args, "minDuration")
                 \o AppendDefined(args, "maxDuration")
                 \o AppendDefined(args, "minEventsCount")
                 \o AppendDefined(args, "maxEventsCount")
                 \o AppendStr(args, "pagePath"))

SessionDetailEndpoint(args) ==
  "/api/mcp/sessions/" \o ArgString(args, "sessionId")

UserFlowsEndpoint(args) ==
  "/api/mcp/flows"
  \o QuerySuffix(AppendNum(args, "limit") \o AppendStr(args, "category")
                 \o AppendDefined(args, "minSessions"))

----------------------------------------------------------------------------
(* Number and date rendering *)

\* Math.round(a / b) for a >= 0, b > 0
RoundDiv(a, b) == (2 * a + b) \div (2 * b)

\* Number.prototype.toFixed(1) of tenths / 10, tenths >= 0
Fixed1(tenths) == ToString(tenths \div 10) \o "." \o ToString(tenths % 10)

\* ((num / den) * 100).toFixed(1), den > 0
Percent1(num, den) == Fixed1(RoundDiv(1000 * num, den))

\* (sum / n).toFixed(1), n > 0
Average1(sum, n) == Fixed1(RoundDiv(10 * sum, n))

\* Number.prototype.toFixed(3) of a value kept in thousandths (0 <= m)
Fixed3(m) ==
  ToString(m \div 1000) \o "."
  \o ToString((m \div 100) % 10) \o ToString((m \div 10) % 10) \o ToString(m % 10)

\* The host: toLocaleString, toLocaleDateString and toLocaleTimeString are
\* called with no locale and no time zone, so they use the defaults of the
\* machine.  offset is the zone's distance from UTC in hours.
DefaultHost == [locale |-> "en-US", offset |-> 0]
Hosts == {[locale |-> l, offset |-> o] : l \in {"en-US", "de-DE"}, o \in {0, -5}}

\* Number.prototype.toLocaleString(): digit grouping of the locale, 0 <= n < 1000000
toLocaleString(n) ==
  IF n < 1000 THEN ToString(n)
  ELSE ToString(n \div 1000) \o (IF host.locale = "de-DE" THEN "." ELSE ",")
       \o ToString((n \div 100) % 10) \o ToString((n \div 10) % 10) \o ToString(n % 10)

DigitOf(ch) == CHOOSE d \in 0..9 : ToString(d) = ch

RECURSIVE ParseInt(_)
ParseInt(str) ==
  IF str = "" THEN 0
  ELSE 10 * ParseInt(SubSeq(str, 1, Len(str) - 1)) + DigitOf(SubSeq(str, Len(str), Len(str)))

DaysInMonth(y, m) ==
  CASE m \in {4, 6, 9, 11} -> 30
    [] m = 2 -> IF y % 4 = 0 /\ (y % 100 # 0 \/ y % 400 = 0) THEN 29 ELSE 28
    [] OTHER -> 31

\* the calendar day on the host at the instant new Date("YYYY-MM-DD") names,
\* which is midnight UTC: west of Greenwich it is still the day before
LocalDay(iso) ==
  LET y == ParseInt(SubSeq(iso, 1, 4))
      m == ParseInt(SubSeq(iso, 6, 7))
      d == ParseInt(SubSeq(iso, 9, 10))
  IN IF host.offset >= 0 THEN [y |-> y, m |-> m, d |-> d]
     ELSE IF d > 1 THEN [y |-> y, m |-> m, d |-> d - 1]
     ELSE IF m > 1 THEN [y |-> y, m |-> m - 1, d |-> DaysInMonth(y, m - 1)]
     ELSE [y |-> y - 1, m |-> 12, d |-> 31]

\* new Date(o.f).toLocaleDateString(): M/D/YYYY in en-US, D.M.YYYY in de-DE;
\* new Date(undefined) prints "Invalid Date"
toLocaleDateString(o, f) ==
  IF ~Has(o, f) THEN "Invalid Date"
  ELSE LET day == LocalDay(o[f])
       IN IF host.locale = "de-DE"
          THEN ToString(day.d) \o "." \o ToString(day.m) \o "." \o ToString(day.y)
          ELSE ToString(day.m) \o "/" \o ToString(day.d) \o "/" \o ToString(day.y)

\* new Date(o.f).toLocaleTimeString(): the dates of the model carry no time of
\* day, which is midnight UTC; 12-hour clock in en-US, 24-hour in de-DE
toLocaleTimeString(o, f) ==
  IF ~Has(o, f) THEN "Invalid Date"
  ELSE LET hour == (24 + host.offset) % 24
       IN IF host.locale = "de-DE"
          THEN (IF hour < 10 THEN "0" ELSE "") \o ToString(hour) \o ":00:00"
          ELSE ToString(IF hour % 12 = 0 THEN 12 ELSE hour % 12) \o ":00:00 "
               \o (IF hour < 12 THEN "AM" ELSE "PM")

\* the data retention notice every formatter but formatUserFlows appends
RetentionNotice(data) ==
  IF Has(data, "_dataRetention")
  THEN <<"", "---",
         "*Note: Data limited to last " \o NumStr(data["_dataRetention"], "days")
         \o " days (free plan). Upgrade for full history.*", "">>
  ELSE <<>>

\* a formatter's result: the text, or the exception it raised
Returned(lines) == [threw |-> FALSE, text |-> lines, message |-> ""]
Thrown(message) == [threw |-> TRUE, text |-> <<>>, message |-> message]

\* the TypeError of reading property f of undefined
UndefinedRead(f) == "Cannot read properties of undefined (reading '" \o f \o "')"

\* the lines Row(x) of every x of list, in order
FlatMap(list, Row(_)) ==
  LET F[i \in 0..Len(list)] == IF i = 0 THEN <<>> ELSE F[i - 1] \o Row(list[i])
  IN F[Len(list)]

\* Array.prototype.filter
Filter(list, Keep(_)) ==
  LET F[i \in 0..Len(list)] ==
        IF i = 0 THEN <<>>
        ELSE F[i - 1] \o (IF Keep(list[i]) THEN <<list[i]>> ELSE <<>>)
  IN F[Len(list)]

\* x placed after every element of the descending list that does not rank
\* below it
InsertDesc(sorted, x, Rank(_)) ==
  LET pos == Cardinality({i \in 1..Len(sorted) : Rank(sorted[i]) >= Rank(x)})
  IN SubSeq(sorted, 1, pos) \o <<x>> \o SubSeq(sorted, pos + 1, Len(sorted))

\* Array.prototype.sort((a, b) => Rank(b) - Rank(a)): descending, stable
SortDesc(list, Rank(_)) ==
  LET F[i \in 0..Len(list)] ==
        IF i = 0 THEN <<>> ELSE InsertDesc(F[i - 1], list[i], Rank)
  IN F[Len(list)]

----------------------------------------------------------------------------
(* formatPageContext *)

\* caps of the page report
DailyCap == 7
FlowCap == 5
ElementCap == 20
ElementPeriodCap == 7

\* `${cond ? a.toFixed(1) : 0}`: a rate, 0 when the denominator is not positive
\* the same quotient with no guard on the denominator: 0/0 is NaN and n/0 is
\* Infinity, which toFixed prints as they are
PageRateUnguarded(num, den) ==
  IF den = 0 THEN (IF num = 0 THEN "NaN" ELSE "Infinity") ELSE Percent1(num, den)

PageRate(num, den) == IF den > 0 THEN Percent1(num, den) ELSE "0"

\* the Map of navigation counts by path, in insertion order, as <<path, count>>
FlowMap(stats, f) ==
  LET entries == FlatMap(stats, LAMBDA st : IF Has(st, f) THEN st[f] ELSE <<>>)
      Put(m, p) ==
        IF \E i \in 1..Len(m) : m[i][1] = p.path
        THEN [i \in 1..Len(m) |->
                IF m[i][1] = p.path THEN <<m[i][1], m[i][2] + p.count>> ELSE m[i]]
        ELSE Append(m, <<p.path, p.count>>)
      F[i \in 0..Len(entries)] == IF i = 0 THEN <<>> ELSE Put(F[i - 1], entries[i])
  IN F[Len(entries)]

FlowRows(m) ==
  FlatMap(Slice0(SortDesc(m, LAMBDA e : e[2]), FlowCap),
          LAMBDA e : <<"- " \o e[1] \o " (" \o ToString(e[2]) \o " navigations)">>)

\* `x.periodType || 'day'` of the first stat
PeriodWord(stats) ==
  IF TruthyStr(stats[1], "periodType") THEN stats[1].periodType ELSE "day"

HasVitals(st) ==
  TruthyNum(st, "avgLcp") \/ TruthyNum(st, "avgFcp") \/ TruthyNum(st, "avgFid")
  \/ Has(st, "avgCls")

\* the Performance section, from the first stat (avgCls is in thousandths)
VitalsSection(st) ==
  IF ~HasVitals(st) THEN <<>>
  ELSE <<"", "### Performance (Web Vitals)">>
       \o (IF TruthyNum(st, "avgLcp")
           THEN <<"- **LCP** (Largest Contentful Paint): " \o ToString(st.avgLcp) \o "ms">>
           ELSE <<>>)
       \o (IF TruthyNum(st, "avgFcp")
           THEN <<"- **FCP** (First Contentful Paint): " \o ToString(st.avgFcp) \o "ms">>
           ELSE <<>>)
       \o (IF TruthyNum(st, "avgFid")
           THEN <<"- **FID** (First Input Delay): " \o ToString(st.avgFid) \o "ms">>
           ELSE <<>>)
       \o (IF Has(st, "avgCls")
           THEN <<"- **CLS** (Cumulative Layout Shift): " \o Fixed3(st.avgCls)>>
           ELSE <<>>)

PageDailyRow(stat) ==
  <<"| " \o toLocaleDateString(stat, "periodStart")
    \o " | Views: " \o NumStr(stat, "viewCount")
    \o " | Visitors: " \o NumStr(stat, "uniqueVisitors")
    \o " | Avg Duration: " \o NumStr(stat, "avgDuration")
    \o "s | Scroll: " \o NumStr(stat, "avgScrollDepth") \o "% |">>

PageInsightRows(stat) ==
  <<"",
    "**" \o (IF Has(stat, "periodType") /\ stat.periodType = "week" THEN "Week of" ELSE "")
    \o " " \o toLocaleDateString(stat, "periodStart") \o "** (updated: "
    \o (IF TruthyStr(stat, "aiSummaryUpdatedAt")
        THEN toLocaleDateString(stat, "aiSummaryUpdatedAt") ELSE "Unknown")
    \o ")",
    stat.aiSummary>>

\* the Page Statistics section for a non-empty stats list
PageStatsSection(stats) ==
  LET views == SumOver(stats, "viewCount")
      flowPrev == FlowMap(stats, "topPreviousPages")
      flowNext == FlowMap(stats, "topNextPages")
      summaries == Filter(stats, LAMBDA st : TruthyStr(st, "aiSummary"))
  IN <<"",
       "**Summary (" \o ToString(Len(stats)) \o " " \o PeriodWord(stats) \o "s)**",
       "- Total Views: " \o ToString(views),
       "- Total Unique Visitors: " \o ToString(SumOver(stats, "uniqueVisitors")),
       "- Total Bounces: " \o ToString(SumOver(stats, "bounceCount")),
       "- Entry Rate: " \o PageRate(SumOver(stats, "entryCount"), views) \o "%",
       "- Exit Rate: " \o PageRate(SumOver(stats, "exitCount"), views) \o "%",
       "",
       "**Recent Daily Breakdown:**">>
     \o FlatMap(Slice0(stats, DailyCap), PageDailyRow)
     \o VitalsSection(stats[1])
     \o (IF flowPrev # <<>> \/ flowNext # <<>>
         THEN <<"", "### Page Flow">>
              \o (IF flowPrev # <<>>
                  THEN <<"**Where users came from:**">> \o FlowRows(flowPrev) ELSE <<>>)
              \o (IF flowNext # <<>>
                  THEN <<"**Where users went next:**">> \o FlowRows(flowNext) ELSE <<>>)
         ELSE <<>>)
     \o (IF summaries # <<>>
         THEN <<"", "### AI Insights">> \o FlatMap(summaries, PageInsightRows)
         ELSE <<>>)

\* the backquote of the Markdown code spans (the lexer of the module language
\* accepts no backquote inside a string, so it is written as an apostrophe)
Backquote == "'"

\* `a || b || c || d || 'Unknown'` over string fields
FirstTruthy(o, fields, fallback) ==
  LET hits == {i \in 1..Len(fields) : TruthyStr(o, fields[i])}
  IN IF hits = {} THEN fallback
     ELSE o[fields[CHOOSE i \in hits : \A j \in hits : i <= j]]

\* String.prototype.toUpperCase() over the category names of the model
toUpperCase(str) ==
  CASE str = "button" -> "BUTTON"
    [] str = "link" -> "LINK"
    [] str = "form" -> "FORM"
    [] OTHER -> str

ElementPeriodRow(stat) ==
  <<"  - " \o toLocaleDateString(stat, "periodStart") \o ": "
    \o NumStr(stat, "interactionCount") \o " interactions, "
    \o NumStr(stat, "uniqueVisitors") \o " visitors">>

\* one element of the page report (element.stats is an array here)
PageElementBlock(element) ==
  <<"",
    "**" \o (IF TruthyStr(element, "category") THEN toUpperCase(element.category)
             ELSE "OTHER")
    \o ": "
    \o FirstTruthy(element, <<"label", "ariaLabel", "elementId", "tagName">>, "Unknown")
    \o "** (ID: " \o NumStr(element, "id") \o ")",
    "- Total Interactions: " \o ToString(SumOver(element.stats, "interactionCount")),
    "- Unique Visitors: " \o ToString(SumOver(element.stats, "uniqueVisitors")),
    "- Tag: " \o Backquote \o "<" \o (IF TruthyStr(element, "tagName") THEN element.tagName ELSE "unknown")
    \o ">" \o Backquote
    \o (IF TruthyStr(element, "elementId")
        THEN " id=\"" \o element.elementId \o "\"" ELSE "")
    \o (IF TruthyStr(element, "ariaLabel")
        THEN " aria-label=\"" \o element.ariaLabel \o "\"" ELSE ""),
    IF TruthyStr(element, "destinationUrl")
    THEN "- Links to: " \o element.destinationUrl ELSE "",
    "- Per-period breakdown:">>
  \o FlatMap(Slice0(element.stats, ElementPeriodCap), ElementPeriodRow)
  \o (IF Len(element.stats) > ElementPeriodCap
      THEN <<"  - *...and " \o ToString(Len(element.stats) - ElementPeriodCap)
             \o " more periods*">>
      ELSE <<>>)

PageElementsSection(elements) ==
  <<"", "### Interactive Elements (" \o ToString(Len(elements)) \o " tracked)">>
  \o (IF Len(elements) = 0
      THEN <<"No interactive elements tracked on this page.">>
      ELSE FlatMap(Slice0(SortDesc(elements,
                                   LAMBDA e : SumOver(e.stats, "interactionCount")),
                          ElementCap),
                   PageElementBlock)
           \o (IF Len(elements) > ElementCap
               THEN <<"", "*...and " \o ToString(Len(elements) - ElementCap)
                      \o " more elements*">>
               ELSE <<>>))

\* the first property read that fails, in the order the code reads them
PageContextError(data) ==
  IF ~Has(data, "page") THEN UndefinedRead("path")
  ELSE IF ~Has(data, "stats") THEN UndefinedRead("length")
  ELSE IF ~Has(data, "elements") THEN UndefinedRead("length")
  ELSE IF Len(data.elements) > 0
          /\ \E i \in 1..Len(data.elements) : ~Has(data.elements[i], "stats")
       THEN UndefinedRead("reduce")
  ELSE ""

formatPageContext(data) ==
  IF PageContextError(data) # "" THEN Thrown(PageContextError(data))
  ELSE Returned(Trim(
         <<"",
           "## Page Analytics: " \o StrStr(data.page, "path"),
           IF TruthyStr(data.page, "title") THEN "**Title:** " \o data.page.title ELSE "",
           "**First Seen:** " \o toLocaleDateString(data.page, "firstSeenAt"),
           "**Last Seen:** " \o toLocaleDateString(data.page, "lastSeenAt"),
           "",
           "### Page Statistics">>
         \o (IF Len(data.stats) = 0
             THEN <<"No statistics available for the selected time range.">>
             ELSE PageStatsSection(data.stats))
         \o PageElementsSection(data.elements)
         \o RetentionNotice(data)))

----------------------------------------------------------------------------
(* formatAppContext *)

\* caps of the app report
AppDailyCap == 7
AppInsightCap == 3
TopCap == 5

\* bounceRate: `totals.sessions > 0 ? (...).toFixed(1) : '0'`
AppBounceRate(bounces, sessions) ==
  IF sessions > 0 THEN Percent1(bounces, sessions) ELSE "0"

AppDailyRow(stat) ==
  <<"| " \o toLocaleDateString(stat, "periodStart")
    \o " | Sessions: " \o NumStr(stat, "totalSessions")
    \o " | Visitors: " \o NumStr(stat, "uniqueVisitors")
    \o " | Pages/Session: " \o ToString(NumOr0(stat, "avgPagesPerSession"))
    \o " | Clicks: " \o ToString(NumOr0(stat, "totalClicks"))
    \o " | Bounce: " \o NumStr(stat, "bounceRate") \o "% |">>

AppInsightRows(stat) ==
  <<"",
    "**" \o (IF Has(stat, "periodType") /\ stat.periodType = "week" THEN "Week of" ELSE "")
    \o " " \o toLocaleDateString(stat, "periodStart") \o "**",
    stat.aiSummary>>

\* the summary for a non-empty stats list
AppStatsSection(stats) ==
  LET n == Len(stats)
      sessions == SumOver(stats, "totalSessions")
      summaries == Filter(stats, LAMBDA st : TruthyStr(st, "aiSummary"))
  IN <<"",
       "### Summary (" \o ToString(n) \o " " \o PeriodWord(stats) \o "s)",
       "- **Total Sessions:** " \o toLocaleString(sessions),
       "- **Unique Visitors:** " \o toLocaleString(SumOver(stats, "uniqueVisitors")),
       "- **New Visitors:** " \o toLocaleString(SumOver(stats, "newVisitors")),
       "- **Total Page Views:** " \o toLocaleString(SumOver(stats, "totalPageViews")),
       "- **Total Clicks:** " \o toLocaleString(SumOver(stats, "totalClicks")),
       "- **Total Form Submits:** " \o toLocaleString(SumOver(stats, "totalFormSubmits")),
       "- **Avg Session Duration:** "
         \o ToString(RoundDiv(SumOver(stats, "avgSessionDuration"), n)) \o "s",
       "- **Avg Pages Per Session:** " \o Average1(SumOver(stats, "avgPagesPerSession"), n),
       "- **Avg Events Per Session:** " \o Average1(SumOver(stats, "avgEventsPerSession"), n),
       "- **Bounce Rate:** " \o AppBounceRate(SumOver(stats, "bounceCount"), sessions) \o "%",
       "",
       "### Session Sentiment",
       "- Positive: " \o ToString(SumOver(stats, "positiveSessions"))
         \o " | Neutral: " \o ToString(SumOver(stats, "neutralSessions"))
         \o " | Negative: " \o ToString(SumOver(stats, "negativeSessions")),
       "",
       "### Daily Breakdown">>
     \o FlatMap(Slice0(stats, AppDailyCap), AppDailyRow)
     \o (IF summaries # <<>>
         THEN <<"", "### AI Insights">>
              \o FlatMap(Slice0(summaries, AppInsightCap), AppInsightRows)
         ELSE <<>>)

\* `if (list && list.length > 0)`: one "top" section, cap rows (0: no cap)
TopSection(data, f, title, cap, Row(_)) ==
  IF Has(data, f) /\ Len(data[f]) > 0
  THEN <<"", title>>
       \o FlatMap(IF cap > 0 THEN Slice0(data[f], cap) ELSE data[f], Row)
  ELSE <<>>

\* `- ${x.name}: ${x.sessions} sessions, ${x.visitors} visitors`
AudienceRow(x, name) ==
  <<"- " \o StrStr(x, name) \o ": " \o NumStr(x, "sessions") \o " sessions, "
    \o NumStr(x, "visitors") \o " visitors">>

AppRecentInsightRows(insight) ==
  <<"",
    "**" \o StrStr(insight, "title") \o "** ("
    \o toLocaleDateString(insight, "createdAt") \o ")",
    StrStr(insight, "content")>>

AppContextError(data) ==
  IF ~Has(data, "stats") THEN UndefinedRead("length") ELSE ""

formatAppContext(data) ==
  IF AppContextError(data) # "" THEN Thrown(AppContextError(data))
  ELSE Returned(Trim(
         <<"## Application Analytics Overview">>
         \o (IF Len(data.stats) = 0
             THEN <<"", "No statistics available for the selected time range.">>
             ELSE AppStatsSection(data.stats))
         \o TopSection(data, "topPages", "### Top Pages by Views", TopCap,
                       LAMBDA x : <<"- " \o StrStr(x, "path") \o ": "
                                    \o NumStr(x, "viewCount") \o " views">>)
         \o TopSection(data, "topEntryPages", "### Top Entry Pages", TopCap,
                       LAMBDA x : <<"- " \o StrStr(x, "path") \o ": "
                                    \o NumStr(x, "count") \o " entries">>)
         \o TopSection(data, "topExitPages", "### Top Exit Pages", TopCap,
                       LAMBDA x : <<"- " \o StrStr(x, "path") \o ": "
                                    \o NumStr(x, "count") \o " exits">>)
         \o TopSection(data, "topReferrers", "### Top Referrers", TopCap,
                       LAMBDA x : AudienceRow(x, "source"))
         \o TopSection(data, "topCountries", "### Top Countries", TopCap,
                       LAMBDA x : AudienceRow(x, "country"))
         \o TopSection(data, "topDevices", "### Device Breakdown", 0,
                       LAMBDA x : AudienceRow(x, "deviceType"))
         \o TopSection(data, "topBrowsers", "### Top Browsers", TopCap,
                       LAMBDA x : AudienceRow(x, "browser"))
         \o TopSection(data, "topOS", "### Top Operating Systems", TopCap,
                       LAMBDA x : AudienceRow(x, "os"))
         \o (IF Len(data.stats) > 0 THEN VitalsSection(data.stats[1]) ELSE <<>>)
         \o (IF Has(data, "recentInsights") /\ Len(data.recentInsights) > 0
             THEN <<"", "### Recent Insights">>
                  \o FlatMap(Slice0(data.recentInsights, AppInsightCap),
                             AppRecentInsightRows)
             ELSE <<>>)
         \o RetentionNotice(data)))

----------------------------------------------------------------------------
(* formatVisitors, formatVisitorDetail *)

EvidenceCap == 5

RECURSIVE Join(_, _)
\* Array.prototype.join(sep) of strings
Join(list, sep) ==
  IF list = <<>> THEN ""
  ELSE IF Len(list) = 1 THEN Head(list)
  ELSE Head(list) \o sep \o Join(Tail(list), sep)

\* `[o.a, o.b, o.c].filter(Boolean)`
TruthyFields(o, fields) ==
  FlatMap(fields, LAMBDA f : IF TruthyStr(o, f) THEN <<o[f]>> ELSE <<>>)

\* `if (o.f) output += ...` for a string field: one line or none
OptLine(o, f, prefix) == IF TruthyStr(o, f) THEN <<prefix \o o[f]>> ELSE <<>>

\* `if (o.f && o.f.length > 0)` for a list field
NonEmptyList(o, f) == Has(o, f) /\ Len(o[f]) > 0

\* a string field, or " | ..."-style decoration when it is set
Decor(o, f, before, after) == IF TruthyStr(o, f) THEN before \o o[f] \o after ELSE ""

VisitorBlock(visitor) ==
  <<"",
    "### " \o (IF TruthyStr(visitor, "profileTitle") THEN visitor.profileTitle
               ELSE StrStr(visitor, "visitorId")),
    "- **Visitor ID:** " \o StrStr(visitor, "visitorId"),
    "- **Sessions:** " \o NumStr(visitor, "sessionCount")
      \o Decor(visitor, "overallSentiment", " | ", "")
      \o Decor(visitor, "engagementTrend", " | Trend: ", "")
      \o (IF TruthyStr(visitor, "segmentName")
          THEN " | Segment: " \o visitor.segmentName \o " (ID: "
               \o NumStr(visitor, "segmentId") \o ")"
          ELSE ""),
    "- **First Visit:** " \o toLocaleDateString(visitor, "firstVisitAt"),
    "- **Last Visit:** " \o toLocaleDateString(visitor, "lastVisitAt")>>
  \o (IF TruthyFields(visitor, <<"deviceType", "browser", "os">>) # <<>>
      THEN <<"- **Device:** "
             \o Join(TruthyFields(visitor, <<"deviceType", "browser", "os">>), " / ")>>
      ELSE <<>>)
  \o (IF TruthyFields(visitor, <<"city", "region", "firstCountry">>) # <<>>
      THEN <<"- **Location:** "
             \o Join(TruthyFields(visitor, <<"city", "region", "firstCountry">>), ", ")>>
      ELSE <<>>)
  \o (IF TruthyStr(visitor, "firstReferer") /\ visitor.firstReferer # "direct"
      THEN <<"- **Referrer:** " \o visitor.firstReferer>> ELSE <<>>)
  \o OptLine(visitor, "profileSummary", "- **Profile:** ")
  \o (IF NonEmptyList(visitor, "primaryInterests")
      THEN <<"- **Interests:** " \o Join(visitor.primaryInterests, ", ")>> ELSE <<>>)
  \o (IF NonEmptyList(visitor, "goalsInferred")
      THEN <<"- **Inferred Goals:** " \o Join(visitor.goalsInferred, ", ")>> ELSE <<>>)
  \o OptLine(visitor, "recommendedAction", "- **Recommended Action:** ")
  \o (IF NonEmptyList(visitor, "evidence")
      THEN <<"- **Evidence:** " \o Join(visitor.evidence, "; ")>> ELSE <<>>)

VisitorsError(data) ==
  IF ~Has(data, "visitors") THEN UndefinedRead("length") ELSE ""

formatVisitors(data) ==
  IF VisitorsError(data) # "" THEN Thrown(VisitorsError(data))
  ELSE Returned(Trim(
         <<"## Visitors", "",
           "Showing " \o ToString(Len(data.visitors)) \o " of " \o NumStr(data, "total")
           \o " visitors (limit: " \o NumStr(data, "limit") \o ", offset: "
           \o NumStr(data, "offset") \o "):">>
         \o (IF Len(data.visitors) = 0
             THEN <<"", "No visitors found matching the criteria.">>
             ELSE FlatMap(data.visitors, VisitorBlock))
         \o RetentionNotice(data)))

RecentSessionBlock(session) ==
  <<"",
    "**Session " \o NumStr(session, "id") \o "** - "
    \o toLocaleDateString(session, "startTime") \o Decor(session, "sentiment", " [", "]")>>
  \o OptLine(session, "title", "Title: ")
  \o OptLine(session, "description", "")
  \o <<"Duration: " \o ToString(NumOr0(session, "duration")) \o "s | Events: "
       \o ToString(NumOr0(session, "eventsCount"))
       \o Decor(session, "deviceType", " | Device: ", "")>>

VisitorDetailError(data) ==
  IF ~Has(data, "visitor") THEN UndefinedRead("profileTitle") ELSE ""

formatVisitorDetail(data) ==
  IF VisitorDetailError(data) # "" THEN Thrown(VisitorDetailError(data))
  ELSE LET visitor == data.visitor
       IN Returned(Trim(
         <<"## Visitor Profile: "
           \o (IF TruthyStr(visitor, "profileTitle") THEN visitor.profileTitle
               ELSE StrStr(visitor, "visitorId")),
           "",
           "**Visitor ID:** " \o StrStr(visitor, "visitorId"),
           "**First Visit:** " \o toLocaleDateString(visitor, "firstVisitAt"),
           "**Last Visit:** " \o toLocaleDateString(visitor, "lastVisitAt")>>
         \o (IF TruthyFields(visitor, <<"deviceType", "browser", "os">>) # <<>>
             THEN <<"", "### Device Info">>
                  \o OptLine(visitor, "deviceType", "- **Device Type:** ")
                  \o OptLine(visitor, "browser", "- **Browser:** ")
                  \o OptLine(visitor, "os", "- **OS:** ")
             ELSE <<>>)
         \o (IF TruthyFields(visitor, <<"city", "region", "firstCountry">>) # <<>>
             THEN <<"**Location:** "
                    \o Join(TruthyFields(visitor, <<"city", "region", "firstCountry">>),
                            ", ")>>
             ELSE <<>>)
         \o (IF TruthyStr(visitor, "firstReferer") /\ visitor.firstReferer # "direct"
             THEN <<"**Referrer:** " \o visitor.firstReferer>> ELSE <<>>)
         \o OptLine(visitor, "segmentName", "**Segment:** ")
         \o OptLine(visitor, "overallSentiment", "**Overall Sentiment:** ")
         \o OptLine(visitor, "engagementTrend", "**Engagement Trend:** ")
         \o (IF TruthyStr(visitor, "profileSummary")
             THEN <<"", "### Profile Summary", visitor.profileSummary>> ELSE <<>>)
         \o (IF NonEmptyList(visitor, "primaryInterests")
             THEN <<"", "### Primary Interests">>
                  \o FlatMap(visitor.primaryInterests, LAMBDA x : <<"- " \o x>>)
             ELSE <<>>)
         \o (IF NonEmptyList(visitor, "goalsInferred")
             THEN <<"", "### Inferred Goals">>
                  \o FlatMap(visitor.goalsInferred, LAMBDA x : <<"- " \o x>>)
             ELSE <<>>)
         \o (IF TruthyStr(visitor, "recommendedAction")
             THEN <<"", "### Recommended Action", visitor.recommendedAction>> ELSE <<>>)
         \o (IF NonEmptyList(visitor, "evidence")
             THEN <<"", "### Supporting Evidence">>
                  \o FlatMap(Slice0(visitor.evidence, EvidenceCap), LAMBDA x : <<"- " \o x>>)
             ELSE <<>>)
         \o (IF NonEmptyList(data, "recentSessions")
             THEN <<"", "### Recent Sessions (" \o ToString(Len(data.recentSessions)) \o ")">>
                  \o FlatMap(data.recentSessions, RecentSessionBlock)
             ELSE <<>>)
         \o RetentionNotice(data)))

----------------------------------------------------------------------------
(* formatSessions, formatSessionDetail *)

SessionBlock(session) ==
  <<"",
    "### Session " \o NumStr(session, "id") \o " - "
    \o toLocaleDateString(session, "startTime") \o " "
    \o toLocaleTimeString(session, "startTime") \o Decor(session, "sentiment", " [", "]"),
    "- **Visitor:** " \o StrStr(session, "visitorId"),
    "- **Duration:** " \o ToString(NumOr0(session, "duration")) \o "s",
    "- **Events:** " \o ToString(NumOr0(session, "eventsCount"))>>
  \o OptLine(session, "deviceType", "- **Device:** ")
  \o OptLine(session, "entryPage", "- **Entry Page:** ")
  \o OptLine(session, "exitPage", "- **Exit Page:** ")
  \o (IF TruthyNum(session, "pageCount")
      THEN <<"- **Pages Visited:** " \o ToString(session.pageCount)
             \o (IF Has(session, "pagesVisited")
                 THEN " (" \o Join(session.pagesVisited, ", ") \o ")" ELSE "")>>
      ELSE <<>>)
  \o OptLine(session, "title", "- **Title:** ")
  \o OptLine(session, "description", "- **Description:** ")

SessionsError(data) ==
  IF ~Has(data, "sessions") THEN UndefinedRead("length") ELSE ""

formatSessions(data) ==
  IF SessionsError(data) # "" THEN Thrown(SessionsError(data))
  ELSE Returned(Trim(
         <<"## Sessions", "",
           "Showing " \o ToString(Len(data.sessions)) \o " of " \o NumStr(data, "total")
           \o " sessions (limit: " \o NumStr(data, "limit") \o ", offset: "
           \o NumStr(data, "offset") \o "):">>
         \o (IF Len(data.sessions) = 0
             THEN <<"", "No sessions found matching the criteria.">>
             ELSE FlatMap(data.sessions, SessionBlock))
         \o RetentionNotice(data)))

\* new URL(u) accepts u only with a scheme (the model's URLs are http(s))
IsAbsoluteUrl(u) == StartsWith(u, "https://") \/ StartsWith(u, "http://")

\* s up to (not including) the first character in stops
UpTo(s, stops) ==
  LET cut == {i \in 1..Len(s) : SubSeq(s, i, i) \in stops}
  IN IF cut = {} THEN s
     ELSE SubSeq(s, 1, (CHOOSE i \in cut : \A j \in cut : i <= j) - 1)

\* str cut at every occurrence of the character sep
RECURSIVE Split(_, _)
Split(str, sep) ==
  LET first == UpTo(str, {sep})
  IN IF Len(first) = Len(str) THEN <<str>>
     ELSE <<first>> \o Split(SubSeq(str, Len(first) + 2, Len(str)), sep)

\* new URL(u).pathname for an absolute http(s) URL
UrlPathname(u) ==
  LET rest == SubSeq(u, (IF StartsWith(u, "https://") THEN 9 ELSE 8), Len(u))
      authority == UpTo(rest, {"/", "?", "#"})
      tail == UpTo(SubSeq(rest, Len(authority) + 1, Len(rest)), {"?", "#"})
  IN IF tail = "" THEN "/" ELSE tail

\* the path segments as the URL parser of fetch keeps them: a "." segment is
\* dropped and a ".." segment takes the segment before it away, and either
\* leaves an empty segment when it is the last one
DotSegments(segs) ==
  LET F[i \in 0..Len(segs)] ==
        IF i = 0 THEN <<>>
        ELSE LET out == F[i - 1]
                 closing == IF i = Len(segs) THEN <<"">> ELSE <<>>
             IN CASE segs[i] = ".." ->
                       (IF out = <<>> THEN out ELSE SubSeq(out, 1, Len(out) - 1)) \o closing
                  [] segs[i] = "." -> out \o closing
                  [] OTHER -> Append(out, segs[i])
  IN F[Len(segs)]

\* the path of the request fetch(u) sends for an absolute http(s) URL
RequestPath(u) == "/" \o Join(DotSegments(Tail(Split(UrlPathname(u), "/"))), "/")

\* JSON.stringify of an event's data, kept as its <<key, string value>> entries
JsonStringify(entries) ==
  "{" \o Join(FlatMap(entries,
                      LAMBDA e : <<"\"" \o e[1] \o "\":\"" \o e[2] \o "\"">>), ",")
  \o "}"

\* the tail of a click event's line with every part printed as it comes
EventDetailPlain(event) ==
  " \"" \o StrStr(event.data, "label") \o "\" <" \o StrStr(event.data, "tagName")
  \o "> #" \o StrStr(event.data, "id")

\* the tail of an event's line, by event type (the arrow U+2192 is written ->)
EventDetail(event) ==
  LET d == event.data
  IN CASE Has(event, "type") /\ event.type = "page_view" ->
            " " \o (IF TruthyStr(d, "path") THEN d.path ELSE "/")
            \o Decor(d, "title", " \"", "\"")
            \o Decor(d, "referrer", " (referrer: ", ")")
       [] Has(event, "type") /\ event.type = "click" ->
            Decor(d, "label", " \"", "\"")
            \o " <" \o (IF TruthyStr(d, "tagName") THEN d.tagName ELSE "UNKNOWN") \o ">"
            \o Decor(d, "id", " #", "")
            \o Decor(d, "selector", " [", "]")
            \o Decor(d, "destinationUrl", " -> ", "")
            \o Decor(d, "sourcePath", " on ", "")
       [] Has(event, "type") /\ event.type = "form_submit" ->
            " <FORM>"
            \o Decor(d, "id", " #", "")
            \o Decor(d, "name", " name=\"", "\"")
            \o Decor(d, "method", " method=", "")
            \o Decor(d, "destinationUrl", " -> ", "")
            \o Decor(d, "sourcePath", " on ", "")
       [] Has(event, "type") /\ event.type = "scroll_depth" ->
            " " \o NumStr(d, "depth") \o "%" \o Decor(d, "sourcePath", " on ", "")
       [] Has(event, "type") /\ event.type = "web_vital" ->
            " " \o StrStr(d, "metric") \o "=" \o NumStr(d, "value")
            \o (IF Has(d, "metric") /\ d.metric = "CLS" THEN "" ELSE "ms")
            \o (IF TruthyStr(d, "sourceUrl")
                THEN " on " \o UrlPathname(d.sourceUrl) ELSE "")
       [] OTHER -> " " \o JsonStringify(d)

EventLine(event) ==
  <<"- **" \o StrStr(event, "type") \o "**"
    \o (IF TruthyStr(event, "timestamp")
        THEN " (" \o toLocaleTimeString(event, "timestamp") \o ")" ELSE "")
    \o (IF Has(event, "data") THEN EventDetail(event) ELSE "")>>

\* new URL(sourceUrl) raising on a web_vital event
EventThrows(event) ==
  /\ Has(event, "data")
  /\ Has(event, "type") /\ event.type = "web_vital"
  /\ TruthyStr(event.data, "sourceUrl")
  /\ ~IsAbsoluteUrl(event.data.sourceUrl)

\* `event.type || 'unknown'`
EventTypeKey(event) == IF TruthyStr(event, "type") THEN event.type ELSE "unknown"

\* Object.entries(eventTypes): the types in order of first occurrence, counted
EventSummary(events) ==
  LET types == FlatMap(events, LAMBDA e : <<EventTypeKey(e)>>)
      firsts == Filter([i \in 1..Len(types) |-> i],
                       LAMBDA i : \A j \in 1..(i - 1) : types[j] # types[i])
  IN Join(FlatMap(firsts,
                  LAMBDA i : <<types[i] \o ": "
                               \o ToString(Cardinality({j \in 1..Len(types) :
                                                          types[j] = types[i]}))>>),
          ", ")

SessionDetailError(data) ==
  IF ~Has(data, "session") THEN UndefinedRead("startTime")
  ELSE IF Has(data.session, "events")
          /\ \E i \in 1..Len(data.session.events) : EventThrows(data.session.events[i])
       THEN "Invalid URL"
  ELSE ""

formatSessionDetail(data) ==
  IF SessionDetailError(data) # "" THEN Thrown(SessionDetailError(data))
  ELSE LET session == data.session
       IN Returned(Trim(
         <<"## Session " \o NumStr(session, "id") \o Decor(session, "sentiment", " [", "]"),
           "**Date:** " \o toLocaleDateString(session, "startTime") \o " "
           \o toLocaleTimeString(session, "startTime"),
           "**Duration:** " \o ToString(NumOr0(session, "duration")) \o "s",
           "**Events:** " \o ToString(NumOr0(session, "eventsCount"))>>
         \o OptLine(session, "deviceType", "**Device:** ")
         \o (IF TruthyStr(session, "region") \/ TruthyStr(session, "city")
             THEN <<"**Location:** "
                    \o Join(TruthyFields(session, <<"city", "region", "country">>), ", ")>>
             ELSE <<>>)
         \o OptLine(session, "title", "**Title:** ")
         \o (IF Has(data, "visitor")
             THEN <<"", "### Visitor Context",
                    "**Visitor ID:** " \o StrStr(data.visitor, "visitorId")>>
                  \o (IF TruthyFields(data.visitor, <<"browser", "os">>) # <<>>
                      THEN <<"**Browser/OS:** "
                             \o Join(TruthyFields(data.visitor, <<"browser", "os">>), " / ")>>
                      ELSE <<>>)
                  \o OptLine(data.visitor, "deviceType", "**Device Type:** ")
                  \o (IF TruthyFields(data.visitor, <<"city", "region">>) # <<>>
                      THEN <<"**Location:** "
                             \o Join(TruthyFields(data.visitor, <<"city", "region">>), ", ")>>
                      ELSE <<>>)
                  \o OptLine(data.visitor, "profileTitle", "**Profile:** ")
                  \o OptLine(data.visitor, "profileSummary", "**Summary:** ")
                  \o OptLine(data.visitor, "overallSentiment", "**Overall Sentiment:** ")
                  \o OptLine(data.visitor, "engagementTrend", "**Engagement Trend:** ")
                  \o OptLine(data.visitor, "segmentName", "**Segment:** ")
             ELSE <<>>)
         \o (IF TruthyStr(session, "description")
             THEN <<"", "### Session Description", session.description>> ELSE <<>>)
         \o (IF NonEmptyList(session, "events")
             THEN <<"", "### Events Timeline (" \o ToString(Len(session.events))
                    \o " events)",
                    "**Event Summary:** " \o EventSummary(session.events),
                    "">>
                  \o FlatMap(session.events, EventLine)
             ELSE <<>>)
         \o RetentionNotice(data)))

----------------------------------------------------------------------------
(* formatUserFlows *)

\* String.prototype.repeat(n) of the bar character U+2588, written #; n >= 0
RECURSIVE Repeat(_, _)
Repeat(ch, n) == IF n <= 0 THEN "" ELSE ch \o Repeat(ch, n - 1)

\* barLen = Math.round((step.continueRate || 0) / 5)
BarLen(step) == RoundDiv(NumOr0(step, "continueRate"), 5)

DropOffRow(step) ==
  <<"  " \o StrStr(step, "page") \o ": " \o Repeat("#", BarLen(step)) \o " "
    \o NumStr(step, "continueRate") \o "%">>

SentimentTotal(flow) ==
  NumOr0(flow, "positiveSessions") + NumOr0(flow, "negativeSessions")
  + NumOr0(flow, "neutralSessions")

\* `${positiveRate}`: Math.round(undefined / total * 100) is NaN
PositiveRate(flow) ==
  IF SentimentTotal(flow) > 0
  THEN IF Has(flow, "positiveSessions")
       THEN ToString(RoundDiv(100 * flow.positiveSessions, SentimentTotal(flow)))
       ELSE "NaN"
  ELSE "0"

FlowBlock(flow) ==
  <<"",
    "### " \o StrStr(flow, "name") \o Decor(flow, "category", " [", "]"),
    "**Path:** "
    \o Join(IF Has(flow, "canonicalPath") THEN flow.canonicalPath ELSE <<>>, " -> "),
    "- **Sessions:** " \o NumStr(flow, "sessionCount") \o " ("
    \o NumStr(flow, "visitorCount") \o " unique visitors)",
    "- **Avg Duration:** " \o ToString(NumOr0(flow, "avgDuration"))
    \o "s | **Avg Pages:** " \o ToString(NumOr0(flow, "avgPageCount")),
    "- **Sentiment:** " \o PositiveRate(flow) \o "% positive"
    \o (IF Has(flow, "negativeSessions") /\ flow.negativeSessions > 0
        THEN " | " \o ToString(flow.negativeSessions) \o " negative sessions" ELSE ""),
    StrStr(flow, "description")>>
  \o (IF NonEmptyList(flow, "dropOffSteps")
      THEN <<"**Drop-off funnel:**">> \o FlatMap(flow.dropOffSteps, DropOffRow)
      ELSE <<>>)
  \o (IF Has(flow, "variantCount") /\ flow.variantCount > 1
      THEN <<"*" \o ToString(flow.variantCount) \o " path variants detected*">>
      ELSE <<>>)

\* a negative repeat count is a RangeError
FlowThrows(flow) ==
  /\ NonEmptyList(flow, "dropOffSteps")
  /\ \E i \in 1..Len(flow.dropOffSteps) : BarLen(flow.dropOffSteps[i]) < 0

UserFlowsError(data) ==
  IF NonEmptyList(data, "flows") /\ \E i \in 1..Len(data.flows) : FlowThrows(data.flows[i])
  THEN "Invalid count value: -1" ELSE ""

\* the notice of formatUserFlows (its own wording)
FlowsRetentionNotice(data) ==
  IF Has(data, "_dataRetention")
  THEN <<"", "---",
         "*Note: Data limited to last " \o NumStr(data["_dataRetention"], "days")
         \o " days (free plan).*", "">>
  ELSE <<>>

formatUserFlows(data) ==
  IF UserFlowsError(data) # "" THEN Thrown(UserFlowsError(data))
  ELSE Returned(Trim(
         <<"## User Journey Patterns", "",
           "Found " \o NumStr(data, "total") \o " detected journey patterns"
           \o (IF TruthyStr(data, "periodStart") /\ TruthyStr(data, "periodEnd")
               THEN " (" \o toLocaleDateString(data, "periodStart") \o " to "
                    \o toLocaleDateString(data, "periodEnd") \o ")"
               ELSE "")
           \o ":">>
         \o (IF ~NonEmptyList(data, "flows")
             THEN <<"", "No user flows detected yet. Flows are generated daily from session data.">>
             ELSE FlatMap(data.flows, FlowBlock) \o FlowsRetentionNotice(data))))

----------------------------------------------------------------------------
(* The reports the list_pages and get_element_context branches build inline *)

\* ((bounceCount / viewCount) * 100).toFixed(0), or ? without the two counts
ListBounceRate(page) ==
  IF page.viewCount > 0 /\ Has(page, "bounceCount")
  THEN ToString(RoundDiv(100 * page.bounceCount, page.viewCount))
  ELSE "?"

\* `${x ?? '?'}` for a numeric field
NumOrQ(o, f) == IF Has(o, f) THEN ToString(o[f]) ELSE "?"

ListPageRow(page) ==
  <<"- **" \o StrStr(page, "path") \o "**" \o Decor(page, "title", " - ", "")
    \o " (" \o toLocaleDateString(page, "firstSeenAt") \o " to "
    \o toLocaleDateString(page, "lastSeenAt")
    \o (IF Has(page, "viewCount")
        THEN " | Views: " \o ToString(page.viewCount)
             \o ", Visitors: " \o NumOrQ(page, "uniqueVisitors")
             \o ", Bounce: " \o ListBounceRate(page)
             \o "%, Avg Duration: " \o NumOrQ(page, "avgDuration")
             \o "s, Scroll: " \o NumOrQ(page, "avgScrollDepth") \o "%"
        ELSE " | No recent traffic data")
    \o ")">>

ListPagesError(data) ==
  IF ~Has(data, "pages") THEN UndefinedRead("length") ELSE ""

formatListPages(data) ==
  IF ListPagesError(data) # "" THEN Thrown(ListPagesError(data))
  ELSE IF Len(data.pages) = 0
  THEN Returned(<<"No pages found. Make sure tracking is set up and data has been collected.">>)
  ELSE Returned(Trim(
         <<"## Tracked Pages", "",
           "Found " \o ToString(Len(data.pages)) \o " pages"
           \o (IF Has(data, "total") /\ data.total > Len(data.pages)
               THEN " (showing first " \o ToString(Len(data.pages)) \o " of "
                    \o ToString(data.total) \o ")"
               ELSE "")
           \o ":",
           "">>
         \o FlatMap(data.pages, ListPageRow)
         \o RetentionNotice(data)))

FoundElementBlock(element) ==
  <<"",
    "### " \o (IF TruthyStr(element, "category") THEN toUpperCase(element.category)
               ELSE "ELEMENT")
    \o ": " \o FirstTruthy(element, <<"label", "elementId">>, "Unknown")
    \o " (ID: " \o NumStr(element, "id") \o ")",
    "- **Page:** " \o StrStr(element, "pagePath"),
    "- **Tag:** " \o Backquote \o "<"
    \o (IF TruthyStr(element, "tagName") THEN element.tagName ELSE "unknown")
    \o ">" \o Backquote,
    "- **HTML ID:** " \o FirstTruthy(element, <<"elementId">>, "N/A"),
    "- **Name:** " \o FirstTruthy(element, <<"elementName">>, "N/A"),
    "- **ARIA Label:** " \o FirstTruthy(element, <<"ariaLabel">>, "N/A"),
    "- **Category:** " \o FirstTruthy(element, <<"category">>, "N/A"),
    IF TruthyStr(element, "destinationUrl")
    THEN "- **Links to:** " \o element.destinationUrl ELSE "",
    "- **Total Interactions:** " \o NumStr(element, "totalInteractions"),
    "- **Unique Visitors:** " \o NumStr(element, "uniqueVisitors"),
    "- **First Seen:** " \o toLocaleDateString(element, "firstSeenAt"),
    "- **Last Seen:** " \o toLocaleDateString(element, "lastSeenAt")>>

ElementContextError(data) ==
  IF ~Has(data, "elements") THEN UndefinedRead("length") ELSE ""

formatElementContext(data) ==
  IF ElementContextError(data) # "" THEN Thrown(ElementContextError(data))
  ELSE IF Len(data.elements) = 0
  THEN Returned(<<"No elements found matching the criteria.">>)
  ELSE Returned(Trim(
         <<"## Elements Found", "",
           "Found " \o ToString(Len(data.elements)) \o " matching element(s):">>
         \o FlatMap(data.elements, FoundElementBlock)
         \o RetentionNotice(data)))

----------------------------------------------------------------------------
(* apiRequest *)

\* API_BASE_URL = process.env.LCONTEXT_API_URL || "https://lcontext.com"
API_BASE_URL == "https://lcontext.com"

\* what a step of the handler comes to: it returns an envelope, raises, goes
\* on with a value, or suspends on the fetch of a request
Return(envelope) == [kind |-> "return", envelope |-> envelope]
Throw(message) == [kind |-> "throw", message |-> message]
Value(v) == [kind |-> "value", value |-> v]
Fetch(request) == [kind |-> "fetch", request |-> request]

\* `options: RequestInit = {}`: what apiRequest gets from a caller that passes
\* no options
DefaultOptions == <<>>

\* `{'X-API-Key': API_KEY, 'Content-Type': 'application/json',
\*   ...options.headers}`: in an object literal a later property replaces an
\* earlier one of the same name, so the headers of the caller come out on top
MergedHeaders(key, options) ==
  (IF Has(options, "headers") THEN options.headers ELSE <<>>)
  @@ ("X-API-Key" :> key) @@ ("Content-Type" :> "application/json")

\* apiRequest with no credential check: the request goes out with whatever
\* key there is
apiRequestStartUnchecked(key, endpoint, options) ==
  Fetch([url |-> API_BASE_URL \o endpoint,
         headers |-> ("X-API-Key" :> key) @@ ("Content-Type" :> "application/json")])

\* apiRequest up to its `await fetch(url, ...)`: the credential check, then
\* the outbound request (url and headers)
apiRequestStart(key, endpoint, options) ==
  IF key = NoKey
  THEN Throw(<<"LCONTEXT_API_KEY environment variable is required">>)
  ELSE Fetch([url |-> API_BASE_URL \o endpoint,
              headers |-> MergedHeaders(key, options)])

\* a check that only takes server errors for failures
ResponseOkBelow500(response) == response.status < 500

\* response.ok: status in the range 200-299
ResponseOk(response) == response.status >= 200 /\ response.status <= 299

\* an apiRequest that puts the whole body into the message of a decode error
apiRequestFinishWholeBody(response) ==
  IF response.kind = "reject" THEN Throw(<<response.message>>)
  ELSE IF ~ResponseOk(response)
  THEN Throw(<<"API request failed (" \o ToString(response.status) \o "): "
               \o response.body>>)
  ELSE IF ~response.json
  THEN Throw(<<"Invalid JSON response from API: " \o response.body>>)
  ELSE Value(response.data)

\* apiRequest after the fetch settled. A response is
\*   [kind |-> "reject", message]                    the fetch promise rejected
\*   [kind |-> "http", status, body, json, data]     a response whose body text
\*       is `body`; json says whether JSON.parse accepts it and data is what
\*       it yields.  (A body that cannot be read rejects like the fetch.)
apiRequestFinish(response) ==
  IF response.kind = "reject" THEN Throw(<<response.message>>)
  ELSE IF ~ResponseOk(response)
  THEN Throw(<<"API request failed (" \o ToString(response.status) \o "): "
               \o response.body>>)
  ELSE IF ~response.json
  THEN Throw(<<"Invalid JSON response from API: " \o SubSeq(response.body, 1,
                 IF Len(response.body) < 200 THEN Len(response.body) ELSE 200)
               \o (IF Len(response.body) > 200 THEN "..." ELSE "")>>)
  ELSE Value(response.data)

----------------------------------------------------------------------------
(* The CallToolRequestSchema handler *)

\* the tools array the ListTools handler returns, each tool by its name
ToolCatalog ==
  <<"get_page_context", "list_pages", "get_element_context", "get_app_context",
    "get_visitors", "get_visitor_detail", "get_sessions", "get_session_detail",
    "get_user_flows">>

\* the names of the Tool Catalog, as the ListTools handler returns them
ListToolsNames == {ToolCatalog[i] : i \in 1..Len(ToolCatalog)}

\* a property of an inputSchema of the catalog: {type} or {type, enum}
PString == [type |-> "string"]
PNumber == [type |-> "number"]
PEnum(values) == [type |-> "string", enum |-> values]

\* the inputSchema of each tool definition of the catalog: its properties and
\* its required list (none has additionalProperties)
inputSchema(name) ==
  CASE name = "get_page_context" ->
         [properties |-> [path |-> PString, startDate |-> PString, endDate |-> PString,
                          periodType |-> PEnum({"day", "week"})],
          required |-> {"path"}]
    [] name = "list_pages" ->
         [properties |-> [limit |-> PNumber, search |-> PString], required |-> {}]
    [] name = "get_element_context" ->
         [properties |-> [elementLabel |-> PString, elementId |-> PString,
                          pagePath |-> PString],
          required |-> {}]
    [] name = "get_app_context" ->
         [properties |-> [periodType |-> PEnum({"day", "week"}), limit |-> PNumber],
          required |-> {}]
    [] name = "get_visitors" ->
         [properties |->
            [limit |-> PNumber, offset |-> PNumber, segmentId |-> PNumber,
             search |-> PString, firstVisitAfter |-> PString,
             firstVisitBefore |-> PString, lastVisitAfter |-> PString,
             lastVisitBefore |-> PString,
             engagementTrend |-> PEnum({"increasing", "stable", "decreasing"}),
             overallSentiment |-> PEnum({"positive", "negative", "neutral", "mixed"})],
          required |-> {}]
    [] name = "get_visitor_detail" ->
         [properties |-> [visitorId |-> PString], required |-> {"visitorId"}]
    [] name = "get_sessions" ->
         [properties |->
            [limit |-> PNumber, offset |-> PNumber, visitorId |-> PString,
             sentiment |-> PEnum({"positive", "negative", "neutral"}),
             startDate |-> PString, endDate |-> PString, search |-> PString,
             minDuration |-> PNumber, maxDuration |-> PNumber,
             minEventsCount |-> PNumber, maxEventsCount |-> PNumber,
             pagePath |-> PString],
          required |-> {}]
    [] name = "get_session_detail" ->
         [properties |-> [sessionId |-> PNumber], required |-> {"sessionId"}]
    [] name = "get_user_flows" ->
         [properties |->
            [limit |-> PNumber,
             category |-> PEnum({"conversion", "exploration", "onboarding", "support",
                                 "engagement", "other"}),
             minSessions |-> PNumber],
          required |-> {}]

\* a call handler with no branch for get_user_flows
ToolNamesShort ==
  {"get_page_context", "list_pages", "get_element_context", "get_app_context",
   "get_visitors", "get_visitor_detail", "get_sessions", "get_session_detail"}

\* the names the branches of the call handler compare request.params.name with
ToolNames ==
  {"get_page_context", "list_pages", "get_element_context", "get_app_context",
   "get_visitors", "get_visitor_detail", "get_sessions", "get_session_detail",
   "get_user_flows"}

\* the schema each branch parses its arguments with
SchemaOf(name) ==
  CASE name = "get_page_context" -> getPageContextSchema
    [] name = "list_pages" -> listPagesSchema
    [] name = "get_element_context" -> getElementContextSchema
    [] name = "get_app_context" -> getAppContextSchema
    [] name = "get_visitors" -> getVisitorsSchema
    [] name = "get_visitor_detail" -> getVisitorDetailSchema
    [] name = "get_sessions" -> getSessionsSchema
    [] name = "get_session_detail" -> getSessionDetailSchema
    [] name = "get_user_flows" -> getUserFlowsSchema

\* what each branch hands to schema.parse: get_page_context passes
\* request.params.arguments as it is, the others `arguments || {}`
ParseInput(name, arguments) ==
  IF name = "get_page_context" THEN arguments ELSE OrEmpty(arguments)

EndpointOf(name, args) ==
  CASE name = "get_page_context" -> PageContextEndpoint(args)
    [] name = "list_pages" -> ListPagesEndpoint(args)
    [] name = "get_element_context" -> ElementContextEndpoint(args)
    [] name = "get_app_context" -> AppContextEndpoint(args)
    [] name = "get_visitors" -> VisitorsEndpoint(args)
    [] name = "get_visitor_detail" -> VisitorDetailEndpoint(args)
    [] name = "get_sessions" -> SessionsEndpoint(args)
    [] name = "get_session_detail" -> SessionDetailEndpoint(args)
    [] name = "get_user_flows" -> UserFlowsEndpoint(args)

FormatOf(name, data) ==
  CASE name = "get_page_context" -> formatPageContext(data)
    [] name = "list_pages" -> formatListPages(data)
    [] name = "get_element_context" -> formatElementContext(data)
    [] name = "get_app_context" -> formatAppContext(data)
    [] name = "get_visitors" -> formatVisitors(data)
    [] name = "get_visitor_detail" -> formatVisitorDetail(data)
    [] name = "get_sessions" -> formatSessions(data)
    [] name = "get_session_detail" -> formatSessionDetail(data)
    [] name = "get_user_flows" -> formatUserFlows(data)

Success(text) == [content |-> <<[type |-> "text", text |-> text]>>]
Failure(text) == [isError |-> TRUE, content |-> <<[type |-> "text", text |-> text]>>]

RECURSIVE IssueLines(_)
IssueLines(issues) ==
  IF issues = {} THEN <<>>
  ELSE LET f == CHOOSE f \in issues : TRUE
       IN <<"  { \"path\": [\"" \o f \o "\"] }">> \o IssueLines(issues \ {f})

\* ZodError.message: the JSON list of the issues (zod is a dependency, not
\* part of the sources; an issue is kept as the path of the rejected field)
ZodMessage(issues) == <<"[">> \o IssueLines(issues) \o <<"]">>

\* the precondition tested with `=== undefined` in place of falsiness: an
\* empty string counts as an identifier
NoElementIdentifierStrict(args) ==
  ~Has(args, "elementLabel") /\ ~Has(args, "elementId")

\* `!args.elementLabel && !args.elementId`
NoElementIdentifier(args) ==
  ~ArgTruthy(args, "elementLabel") /\ ~ArgTruthy(args, "elementId")

\* a tool branch up to its `await apiRequest(endpoint)`
BranchStart(key, name, arguments) ==
  LET parsed == ZodParse(SchemaOf(name), ParseInput(name, arguments))
  IN IF ~parsed.ok THEN Throw(ZodMessage(parsed.issues))
     ELSE IF name = "get_element_context" /\ NoElementIdentifier(parsed.value)
     THEN Return(Failure(<<"Either elementLabel or elementId is required">>))
     ELSE apiRequestStart(key, EndpointOf(name, parsed.value), DefaultOptions)

\* a fallthrough that raises in place of returning the envelope itself
TryStartThrowing(key, name, arguments) ==
  IF name \in ToolNames THEN BranchStart(key, name, arguments)
  ELSE Throw(<<"Unknown tool: " \o name>>)

\* the body of the try block up to its first suspension
TryStart(key, name, arguments) ==
  IF name \in ToolNames THEN BranchStart(key, name, arguments)
  ELSE Return(Failure(<<"Unknown tool: " \o name>>))

\* the body of the try block after the fetch settled
TryFinish(name, response) ==
  LET got == apiRequestFinish(response)
  IN IF got.kind = "throw" THEN got
     ELSE LET out == FormatOf(name, got.value)
          IN IF out.threw THEN Throw(<<out.message>>) ELSE Return(Success(out.text))

\* `Error: ${error.message}` over a message kept as its lines
ErrorText(message) == <<"Error: " \o Head(message)>> \o Tail(message)

\* a body with no catch clause: whatever it raises leaves the handler
CatchNothing(step) == step

\* the catch clause around the whole body: an exception becomes the error
\* envelope; anything else passes
Catch(step) == IF step.kind = "throw" THEN Return(Failure(ErrorText(step.message))) ELSE step

----------------------------------------------------------------------------
(* State: the configuration and the tool calls *)

CallIds == 1..MaxCalls

\* a call nobody has made yet
Idle ==
  [pc |-> "idle", name |-> "", arguments |-> [given |-> FALSE, bag |-> <<>>],
   fetches |-> <<>>, responses |-> <<>>, formatted |-> FALSE, envelopes |-> <<>>,
   escaped |-> <<>>]

\* the handler of call c after a step of it came to `step`: suspended on the
\* fetch, returned (its envelope goes to the caller), or left by an exception
After(call, step) ==
  CASE step.kind = "fetch" ->
         [call EXCEPT !.pc = "awaiting", !.fetches = Append(@, step.request)]
    [] step.kind = "return" ->
         [call EXCEPT !.pc = "done", !.envelopes = Append(@, step.envelope)]
    [] step.kind = "throw" ->
         [call EXCEPT !.pc = "crashed", !.escaped = Append(@, step.message)]

\* a handler that shares the pending request of another call of the same tool
\* with the same arguments instead of sending its own
CallToolCoalescing(c, name, arguments) ==
  /\ calls[c].pc = "idle"
  /\ LET mine == After([calls[c] EXCEPT !.name = name, !.arguments = arguments],
                       Catch(TryStart(API_KEY, name, arguments)))
         shared == \E d \in CallIds \ {c} :
                     /\ calls[d].pc = "awaiting"
                     /\ calls[d].name = name /\ calls[d].arguments = arguments
     IN calls' = [calls EXCEPT ![c] =
                    IF shared THEN [mine EXCEPT !.fetches = <<>>] ELSE mine]
  /\ UNCHANGED <<API_KEY, host, probe, proc, disk>>

\* the handler is invoked with request.params = {name, arguments} and runs to
\* its first suspension or to its return
CallTool(c, name, arguments) ==
  /\ calls[c].pc = "idle"
  /\ calls' = [calls EXCEPT ![c] =
       After([@ EXCEPT !.name = name, !.arguments = arguments],
             Catch(TryStart(API_KEY, name, arguments)))]
  /\ UNCHANGED <<API_KEY, host, probe, proc, disk>>

\* a handler that sends its request once more when the first one failed
FetchSettleRetrying(c, response) ==
  /\ calls[c].pc = "awaiting"
  /\ calls' = [calls EXCEPT ![c] =
       IF apiRequestFinish(response).kind = "throw" /\ Len(calls[c].fetches) = 1
       THEN [@ EXCEPT !.fetches = Append(@, calls[c].fetches[1])]
       ELSE After([@ EXCEPT !.responses = Append(@, response),
                            !.formatted = (apiRequestFinish(response).kind = "value")],
                  Catch(TryFinish(calls[c].name, response)))]
  /\ UNCHANGED <<API_KEY, host, probe, proc, disk>>

\* the fetch of call c settles with `response` and the handler runs to its
\* end; the formatter is reached when apiRequest returns the parsed payload
FetchSettle(c, response) ==
  /\ calls[c].pc = "awaiting"
  /\ calls' = [calls EXCEPT ![c] =
       After([@ EXCEPT !.responses = Append(@, response),
                       !.formatted = (apiRequestFinish(response).kind = "value")],
             Catch(TryFinish(calls[c].name, response)))]
  /\ UNCHANGED <<API_KEY, host, probe, proc, disk>>

\* the fetch of call c, or the reading of the body of its response, never
\* completes: fetch is given no signal and no timeout, so the handler stays
\* at its await for as long as the remote side keeps the exchange open
FetchStall(c) ==
  /\ calls[c].pc = "awaiting"
  /\ calls' = [calls EXCEPT ![c].pc = "stalled"]
  /\ UNCHANGED <<API_KEY, host, probe, proc, disk>>

\* The process.  pc: "off" before it is run, "connecting" while main awaits
\* server.connect, "serving" after, "updating" while the --update chain runs,
\* "exited" after process.exit.  exit is the exit code (-1: none yet), check
\* the state of checkForUpdates, notice whether it wrote its two lines to
\* stderr, listed what ListTools returned, upd the step of the --update chain
\* and data what it downloaded.
ProcOff ==
  [pc |-> "off", argv |-> {}, exit |-> -1, connected |-> FALSE, check |-> "idle",
   notice |-> FALSE, listed |-> <<>>, upd |-> "none", data |-> "none"]

\* the request handlers taken on their own, however the requests reach them
Handling == [ProcOff EXCEPT !.pc = "handling"]

\* the files: the executable is installed, and nothing is left of an update
Installed == [exec |-> "old", new |-> "absent", backup |-> "absent"]

Exit(p, code) == [p EXCEPT !.pc = "exited", !.exit = code]

CURRENT_VERSION == "1.4.0"

\* `Number(part) || 0` for a part of a version, and for a part that is not
\* there: digits give their number, anything else NaN or undefined, so 0
VersionPart(parts, i) ==
  IF i <= Len(parts) /\ \A k \in 1..Len(parts[i]) :
                          SubSeq(parts[i], k, k) \in {ToString(d) : d \in 0..9}
  THEN ParseInt(parts[i]) ELSE 0

isNewerVersion(latest, current) ==
  LET latestParts == Split(latest, ".")
      currentParts == Split(current, ".")
      n == IF Len(latestParts) > Len(currentParts) THEN Len(latestParts)
           ELSE Len(currentParts)
      differ == {i \in 1..n : VersionPart(latestParts, i) # VersionPart(currentParts, i)}
  IN IF differ = {} THEN FALSE
     ELSE LET i == CHOOSE i \in differ : \A j \in differ : i <= j
          IN VersionPart(latestParts, i) > VersionPart(currentParts, i)

\* tag.replace(/^v/, '')
StripV(tag) == IF StartsWith(tag, "v") THEN SubSeq(tag, 2, Len(tag)) ELSE tag

\* the body of the try of checkForUpdates once its fetch settled with outcome:
\* did it throw, and did it write the notice.  An outcome is
\*   [kind |-> "reject"], [kind |-> "abort"]       the fetch promise rejected
\*   [kind |-> "http", ok, json, release]          a response; json says whether
\*       response.json() accepts the body and release is what it yields
CheckBody(outcome) ==
  IF outcome.kind # "http" THEN [threw |-> TRUE, notice |-> FALSE]
  ELSE IF ~outcome.ok THEN [threw |-> FALSE, notice |-> FALSE]
  ELSE IF ~outcome.json \/ ~Has(outcome.release, "tag_name")
  THEN [threw |-> TRUE, notice |-> FALSE]
  ELSE LET latestVersion == StripV(outcome.release.tag_name)
       IN [threw |-> FALSE,
           notice |-> latestVersion # CURRENT_VERSION
                      /\ isNewerVersion(latestVersion, CURRENT_VERSION)]

\* a checkForUpdates with no catch: what the try raises rejects its promise
SilentCatchMissing(result) == result

\* `catch { }` of checkForUpdates: whatever the try raised is dropped
SilentCatch(result) == [result EXCEPT !.threw = FALSE]

\* a main that connects whatever the key
mainUnchecked(p, key) == [p EXCEPT !.pc = "connecting"]

\* main up to its await: exit(1) without a key, else server.connect is called
main(p, key) == IF key = NoKey THEN Exit(p, 1) ELSE [p EXCEPT !.pc = "connecting"]

\* the module is evaluated with process.argv.slice(2) = argv: the flags, the
\* start of the --update chain, the call of checkForUpdates (its fetch is
\* sent), and main unless --update was given
Launch(argv) ==
  /\ proc.pc = "off"
  /\ proc' =
       IF argv \cap {"--version", "-v"} # {} \/ argv \cap {"--help", "-h"} # {}
       THEN Exit([proc EXCEPT !.argv = argv], 0)
       ELSE LET loaded == [proc EXCEPT !.argv = argv, !.check = "fetching"]
            IN IF "--update" \in argv
               THEN [loaded EXCEPT !.pc = "updating", !.upd = "release"]
               ELSE main(loaded, API_KEY)
  /\ UNCHANGED <<API_KEY, host, calls, probe, disk>>

\* the fetch of checkForUpdates settles, or its 3 s timer aborts it, and the
\* function runs to its end; a rejection nobody handles ends the process
CheckSettle(outcome) ==
  /\ proc.pc \in {"connecting", "serving", "updating"}
  /\ proc.check = "fetching"
  /\ LET result == SilentCatch(CheckBody(outcome))
     IN proc' = IF result.threw THEN Exit([proc EXCEPT !.check = "done"], 1)
                ELSE [proc EXCEPT !.check = "done", !.notice = result.notice]
  /\ UNCHANGED <<API_KEY, host, calls, probe, disk>>

\* server.connect(transport) resolves: requests are served from now on
Connect ==
  /\ proc.pc = "connecting"
  /\ proc' = [proc EXCEPT !.pc = "serving", !.connected = TRUE]
  /\ UNCHANGED <<API_KEY, host, calls, probe, disk>>

\* server.connect rejects: main().catch prints and exits with 1
ConnectFail ==
  /\ proc.pc = "connecting"
  /\ proc' = Exit(proc, 1)
  /\ UNCHANGED <<API_KEY, host, calls, probe, disk>>

\* the ListTools handler is invoked and returns its literal
ListTools ==
  /\ proc.pc \in {"serving", "handling"}
  /\ Len(proc.listed) < MaxCalls
  /\ proc' = [proc EXCEPT !.listed = Append(@, ToolCatalog)]
  /\ UNCHANGED <<API_KEY, host, calls, probe, disk>>

\* the asset name of this platform (linux, x64)
binaryName == "lcontext-linux-x64"

\* the --update chain after the fetch of the latest release settled: res.json()
\* (res.ok is not looked at), the tag against the current version, the asset
\* of this platform, and the fetch of its browser_download_url.  outcome is
\*   [kind |-> "reject"]                    the fetch promise rejected
\*   [kind |-> "http", json, release]       a response and what res.json() yields
ReleaseSettle(outcome) ==
  /\ proc.pc = "updating" /\ proc.upd = "release"
  /\ proc' =
       IF outcome.kind # "http" \/ ~outcome.json \/ ~Has(outcome.release, "tag_name")
       THEN Exit(proc, 1)
       ELSE IF StripV(outcome.release.tag_name) = CURRENT_VERSION
       THEN Exit(proc, 0)
       ELSE IF ~Has(outcome.release, "assets") THEN Exit(proc, 1)
       ELSE IF binaryName \notin outcome.release.assets THEN Exit(proc, 1)
       ELSE [proc EXCEPT !.upd = "download"]
  /\ UNCHANGED <<API_KEY, host, calls, probe, disk>>

\* the fetch of the asset settled: res.arrayBuffer() takes the body of any
\* response, whatever its status; a rejection goes to the catch of the chain.
\* outcome is [kind |-> "reject"] or [kind |-> "http", body], the body being
\* "new" (the released binary) or "page" (the text of an error response)
DownloadSettle(outcome) ==
  /\ proc.pc = "updating" /\ proc.upd = "download"
  /\ proc' = IF outcome.kind # "http" THEN Exit(proc, 1)
             ELSE [proc EXCEPT !.upd = "write", !.data = outcome.body]
  /\ UNCHANGED <<API_KEY, host, calls, probe, disk>>

\* fs.writeFileSync(tempPath, binaryData): done, or it throws and leaves the
\* file as it was or partly written
WriteTemp(ok) ==
  /\ proc.pc = "updating" /\ proc.upd = "write"
  /\ IF ok
     THEN /\ disk' = [disk EXCEPT !.new = proc.data]
          /\ proc' = [proc EXCEPT !.upd = "chmod"]
     ELSE /\ \E left \in {disk.new, "partial"} : disk' = [disk EXCEPT !.new = left]
          /\ proc' = Exit(proc, 1)
  /\ UNCHANGED <<API_KEY, host, calls, probe>>

\* fs.chmodSync(tempPath, 0o755)
ChmodTemp(ok) ==
  /\ proc.pc = "updating" /\ proc.upd = "chmod"
  /\ proc' = IF ok THEN [proc EXCEPT !.upd = "unlinkStale"] ELSE Exit(proc, 1)
  /\ UNCHANGED <<API_KEY, host, calls, probe, disk>>

\* if (fs.existsSync(backupPath)) fs.unlinkSync(backupPath)
UnlinkStaleBackup(ok) ==
  /\ proc.pc = "updating" /\ proc.upd = "unlinkStale"
  /\ IF disk.backup = "absent"
     THEN /\ proc' = [proc EXCEPT !.upd = "renameExec"]
          /\ UNCHANGED disk
     ELSE IF ok
     THEN /\ disk' = [disk EXCEPT !.backup = "absent"]
          /\ proc' = [proc EXCEPT !.upd = "renameExec"]
     ELSE /\ proc' = Exit(proc, 1)
          /\ UNCHANGED disk
  /\ UNCHANGED <<API_KEY, host, calls, probe>>

\* fs.renameSync(execPath, backupPath)
RenameExecToBackup(ok) ==
  /\ proc.pc = "updating" /\ proc.upd = "renameExec"
  /\ IF ok
     THEN /\ disk' = [disk EXCEPT !.backup = disk.exec, !.exec = "absent"]
          /\ proc' = [proc EXCEPT !.upd = "renameTemp"]
     ELSE /\ proc' = Exit(proc, 1)
          /\ UNCHANGED disk
  /\ UNCHANGED <<API_KEY, host, calls, probe>>

\* fs.renameSync(tempPath, execPath)
RenameTempToExec(ok) ==
  /\ proc.pc = "updating" /\ proc.upd = "renameTemp"
  /\ IF ok
     THEN /\ disk' = [disk EXCEPT !.exec = disk.new, !.new = "absent"]
          /\ proc' = [proc EXCEPT !.upd = "unlinkBackup"]
     ELSE /\ proc' = Exit(proc, 1)
          /\ UNCHANGED disk
  /\ UNCHANGED <<API_KEY, host, calls, probe>>

\* fs.unlinkSync(backupPath), then "Successfully updated" and process.exit(0)
UnlinkBackup(ok) ==
  /\ proc.pc = "updating" /\ proc.upd = "unlinkBackup"
  /\ IF ok
     THEN /\ disk' = [disk EXCEPT !.backup = "absent"]
          /\ proc' = Exit([proc EXCEPT !.upd = "done"], 0)
     ELSE /\ proc' = Exit(proc, 1)
          /\ UNCHANGED disk
  /\ UNCHANGED <<API_KEY, host, calls, probe>>

\* apiRequest invoked on its own, with options: up to its fetch
ProbeIdle == [pc |-> "idle", fetches |-> <<>>, outcome |-> <<>>]

ApiRequest(endpoint, options) ==
  /\ probe.pc = "idle"
  /\ LET step == apiRequestStart(API_KEY, endpoint, options)
     IN probe' = IF step.kind = "fetch"
                 THEN [probe EXCEPT !.pc = "awaiting",
                                    !.fetches = Append(@, step.request)]
                 ELSE [probe EXCEPT !.pc = "threw", !.outcome = <<step>>]
  /\ UNCHANGED <<API_KEY, host, calls, proc, disk>>

\* and after its fetch settled
ApiRequestSettle(response) ==
  /\ probe.pc = "awaiting"
  /\ LET step == apiRequestFinish(response)
     IN probe' = [probe EXCEPT
                    !.pc = IF step.kind = "throw" THEN "threw" ELSE "returned",
                    !.outcome = <<step>>]
  /\ UNCHANGED <<API_KEY, host, calls, proc, disk>>

\* the machine of Spec and SpecFmt is an en-US one on UTC
Init ==
  /\ API_KEY \in KeyValues
  /\ host = DefaultHost
  /\ calls = [c \in CallIds |-> Idle]
  /\ probe = ProbeIdle
  /\ proc = Handling
  /\ disk = Installed

----------------------------------------------------------------------------
(* Inputs: requests *)

Args(bag) == [given |-> TRUE, bag |-> bag]
NoArgs == [given |-> FALSE, bag |-> <<>>]
Req(name, arguments) == [name |-> name, arguments |-> arguments]

\* requests that pass validation, one or two per tool
ValidRequests ==
  {Req("get_page_context", Args([path |-> Str("/products/shoes")])),
   Req("list_pages", NoArgs),
   Req("get_element_context", Args([elementLabel |-> Str("Buy")])),
   Req("get_element_context",
       Args([elementId |-> Str("buy-btn"), pagePath |-> Str("/p")])),
   Req("get_app_context", Args(<<>>)),
   Req("get_visitors", NoArgs),
   Req("get_visitor_detail", Args([visitorId |-> Str("v1")])),
   Req("get_sessions", Args([minDuration |-> Num(0)])),
   Req("get_session_detail", Args([sessionId |-> Num(7)])),
   Req("get_user_flows", NoArgs)}

\* requests the parameter schema of the tool rejects
InvalidRequests ==
  {Req("get_page_context", NoArgs),
   Req("get_page_context", Args(<<>>)),
   Req("get_page_context", Args([path |-> Num(5)])),
   Req("get_page_context", Args([path |-> Str("/p"), periodType |-> Str("month")])),
   Req("list_pages", Args([limit |-> Str("ten")])),
   Req("get_element_context", Args([elementLabel |-> Num(1)])),
   Req("get_element_context", Args([pagePath |-> Num(1)])),
   Req("get_app_context", Args([periodType |-> Str("year")])),
   Req("get_visitors", Args([segmentId |-> Str("a")])),
   Req("get_visitor_detail", NoArgs),
   Req("get_visitor_detail", Args([visitorId |-> Null])),
   Req("get_sessions", Args([sentiment |-> Str("mixed")])),
   Req("get_session_detail", Args(<<>>)),
   Req("get_session_detail", Args([sessionId |-> Str("7")])),
   Req("get_user_flows", Args([limit |-> Str("ten")]))}

\* get_element_context requests with no identifying field
UnidentifiedRequests ==
  {Req("get_element_context", NoArgs),
   Req("get_element_context", Args([elementLabel |-> Str("")])),
   Req("get_element_context", Args([elementLabel |-> Str(""), elementId |-> Str("")])),
   Req("get_element_context", Args([pagePath |-> Str("/p")]))}

\* requests for tools the handler does not know
UnknownRequests ==
  {Req("does_not_exist", NoArgs), Req("get_pages", Args(<<>>))}

Requests == ValidRequests \cup InvalidRequests \cup UnidentifiedRequests \cup UnknownRequests

\* the strings of at most n characters drawn from chars
Strings(chars, n) ==
  LET S[k \in 0..n] ==
        IF k = 0 THEN {""} ELSE S[k - 1] \cup {str \o ch : str \in S[k - 1], ch \in chars}
  IN S[n]

\* characters of a path or an id: a letter, a dot, and the delimiters of a URL
PathChars == {"a", ".", "/", "?", "#", "&", "%", " "}

Paths == Strings(PathChars, MaxPathLen)

\* values a caller may send for a field of a schema: usual ones, the empty
\* and zero ones, a string that looks like a query, a negative number, and
\* for an enumeration its values and two strings outside it
Candidates(spec) ==
  CASE spec.type = "string" -> {Str(""), Str("x"), Str("a&limit=9")}
    [] spec.type = "number" -> {Num(0), Num(5), Num(-1)}
    [] spec.type = "enum" -> {Str(v) : v \in spec.values \cup {"bogus", ""}}

\* the bags that set at most k of the fields `fields` of schema
Bags(schema, fields, k) ==
  LET S[n \in 0..k] ==
        IF n = 0 THEN {<<>>}
        ELSE S[n - 1]
             \cup UNION {{(f :> v) @@ b : b \in S[n - 1], v \in Candidates(schema[f])} :
                         f \in fields}
  IN S[k]

\* the requests of SpecArgs: every path and visitor id, and for every tool
\* every choice of at most MaxFields optional arguments
ArgRequests ==
  {Req("get_page_context", Args(("path" :> Str(path)))) : path \in Paths}
  \cup {Req("get_visitor_detail", Args(("visitorId" :> Str(id)))) : id \in Paths}
  \cup {Req("get_page_context", Args(("path" :> Str("/p")) @@ b)) :
          b \in Bags(getPageContextSchema, DOMAIN getPageContextSchema \ {"path"},
                     MaxFields)}
  \cup {Req("get_session_detail", Args(b)) :
          b \in Bags(getSessionDetailSchema, {"sessionId"}, 1)}
  \cup UNION {{Req(name, Args(b)) :
                 b \in Bags(SchemaOf(name), DOMAIN SchemaOf(name), MaxFields)} :
              name \in {"list_pages", "get_element_context", "get_app_context",
                        "get_visitors", "get_sessions", "get_user_flows"}}

----------------------------------------------------------------------------
(* Inputs: remote responses *)

\* o with the field f := v added (or replaced)
With(o, f, v) == (f :> v) @@ o

\* o without the field f
Without(o, f) == [g \in DOMAIN o \ {f} |-> o[g]]

\* list lengths around a cap: none, one, and from just under the cap to past it
Lens(cap) == {0, 1} \cup ((cap - 1)..(cap + MaxOver))

Counts == 0..MaxCount

Day == "2025-01-13"

\* a payload as the backend sent it, and with the retention marker of a free plan
Plans(payloads) ==
  payloads \cup {With(d, "_dataRetention", [days |-> 30]) : d \in payloads}

PageObj ==
  [path |-> "/products/shoes", title |-> "Shoes", firstSeenAt |-> "2025-01-01",
   lastSeenAt |-> Day]

PageStat(views, entries) ==
  [periodType |-> "day", periodStart |-> Day, viewCount |-> views,
   uniqueVisitors |-> views, bounceCount |-> 0, entryCount |-> entries,
   exitCount |-> entries, avgDuration |-> 12, avgScrollDepth |-> 50]

ElementStat == [periodStart |-> Day, interactionCount |-> 2, uniqueVisitors |-> 1]

\* the i-th element of a page, with k period rows
PageElement(i, k) ==
  [id |-> i, label |-> "Buy", tagName |-> "BUTTON", category |-> "button",
   stats |-> [j \in 1..(k + (i % 2)) |-> ElementStat]]

PageBase == [page |-> PageObj, stats |-> <<PageStat(2, 1)>>, elements |-> <<>>]

NavList == <<[path |-> "/", count |-> 2], [path |-> "/cart", count |-> 3]>>

PagePayloads ==
  Plans(
    {[PageBase EXCEPT !.stats = [i \in 1..n |-> PageStat(v, e)]] :
       n \in Lens(DailyCap), v \in Counts, e \in Counts}
    \cup {[PageBase EXCEPT !.elements = [i \in 1..m |-> PageElement(i, k)]] :
            m \in Lens(ElementCap), k \in Lens(ElementPeriodCap)}
    \cup {Without(PageBase, "stats"), Without(PageBase, "elements"),
          Without(PageBase, "page"),
          [PageBase EXCEPT !.elements = <<Without(PageElement(1, 1), "stats")>>],
          [PageBase EXCEPT !.stats = <<Without(PageStat(2, 1), "viewCount")>>],
          [PageBase EXCEPT !.page = Without(PageObj, "title")],
          [PageBase EXCEPT !.stats =
             <<With(With(PageStat(2, 1), "avgLcp", 1800), "avgCls", 45),
               With(With(PageStat(1, 1), "topPreviousPages", NavList),
                    "aiSummary", "Most visitors leave early.")>>]})

AppStat(sessions, bounces) ==
  [periodType |-> "day", periodStart |-> Day, totalSessions |-> sessions,
   uniqueVisitors |-> sessions, newVisitors |-> 1, totalPageViews |-> 2 * sessions,
   totalClicks |-> 3, totalFormSubmits |-> 0, bounceCount |-> bounces,
   bounceRate |-> 50, avgSessionDuration |-> 31, avgPagesPerSession |-> 2,
   avgEventsPerSession |-> 5, positiveSessions |-> 1, negativeSessions |-> 0,
   neutralSessions |-> 1]

AppBase == [stats |-> <<AppStat(2, 1)>>]

TopPage(i) == [path |-> "/p" \o ToString(i), viewCount |-> i, count |-> i]

Audience(i) ==
  [source |-> "ref" \o ToString(i), country |-> "C" \o ToString(i),
   deviceType |-> "dev" \o ToString(i), browser |-> "br" \o ToString(i),
   os |-> "os" \o ToString(i), sessions |-> i, visitors |-> i]

TopPageFields == {"topPages", "topEntryPages", "topExitPages"}
AudienceFields == {"topReferrers", "topCountries", "topDevices", "topBrowsers", "topOS"}

AppPayloads ==
  Plans(
    {[AppBase EXCEPT !.stats = [i \in 1..n |-> AppStat(v, b)]] :
       n \in Lens(AppDailyCap), v \in Counts, b \in Counts}
    \cup {With(AppBase, f, [i \in 1..n |-> TopPage(i)]) :
            f \in TopPageFields, n \in Lens(TopCap)}
    \cup {With(AppBase, f, [i \in 1..n |-> Audience(i)]) :
            f \in AudienceFields, n \in Lens(TopCap)}
    \cup {Without(AppBase, "stats"),
          [AppBase EXCEPT !.stats = <<Without(AppStat(2, 1), "totalSessions")>>],
          With(AppBase, "recentInsights",
               <<[title |-> "Spike", content |-> "Traffic doubled.", createdAt |-> Day]>>)})

VisitorObj ==
  [visitorId |-> "v1", sessionCount |-> 3, firstVisitAt |-> "2025-01-01",
   lastVisitAt |-> Day, profileTitle |-> "Returning buyer", deviceType |-> "desktop",
   browser |-> "Firefox", firstCountry |-> "NL", overallSentiment |-> "positive"]

VisitorSparse == [visitorId |-> "v2"]

VisitorsBase == [visitors |-> <<>>, total |-> 0, limit |-> 20, offset |-> 0]

VisitorsPayloads ==
  Plans({VisitorsBase,
         [VisitorsBase EXCEPT !.visitors = <<VisitorObj>>, !.total = 1],
         [VisitorsBase EXCEPT !.visitors = <<VisitorObj, VisitorSparse>>, !.total = 2],
         Without(VisitorsBase, "visitors"),
         [visitors |-> <<VisitorSparse>>]})

SessionObj ==
  [id |-> 7, visitorId |-> "v1", startTime |-> Day, duration |-> 95,
   eventsCount |-> 4, sentiment |-> "negative", deviceType |-> "mobile",
   entryPage |-> "/", title |-> "Abandoned cart"]

SessionSparse == [id |-> 8]

VisitorDetailPayloads ==
  Plans({[visitor |-> VisitorObj, recentSessions |-> <<SessionObj, SessionSparse>>],
         [visitor |-> VisitorObj],
         [visitor |-> VisitorSparse, recentSessions |-> <<>>],
         [recentSessions |-> <<SessionObj>>]})

SessionsBase == [sessions |-> <<>>, total |-> 0, limit |-> 20, offset |-> 0]

SessionsPayloads ==
  Plans({SessionsBase,
         [SessionsBase EXCEPT !.sessions = <<SessionObj>>, !.total = 1],
         [SessionsBase EXCEPT !.sessions = <<SessionObj, SessionSparse>>, !.total = 2],
         Without(SessionsBase, "sessions"),
         [sessions |-> <<SessionSparse>>]})

Event(type, data) == [type |-> type, timestamp |-> Day, data |-> data]

ClickData == [label |-> "Buy", tagName |-> "BUTTON", id |-> "buy-btn"]

EventLists ==
  {<<>>,
   <<Event("click", ClickData)>>,
   <<Event("click", [id |-> "buy-btn"]), Event("click", [label |-> "Buy"])>>,
   <<Event("click", [tagName |-> "A", selector |-> "a.pay", destinationUrl |-> "/pay",
                     sourcePath |-> "/cart"]),
     Event("click", <<>>),
     [type |-> "click", data |-> [label |-> "", tagName |-> "", id |-> "x"]]>>,
   <<Event("page_view", [path |-> "/cart"]), Event("scroll_depth", [depth |-> 80])>>,
   <<Event("form_submit", [id |-> "f1", method |-> "POST"])>>,
   <<Event("web_vital", [metric |-> "LCP", value |-> 1800,
                         sourceUrl |-> "https://shop.example/cart?x=1"])>>,
   <<Event("web_vital", [metric |-> "CLS", value |-> 0])>>,
   <<Event("web_vital", [metric |-> "LCP", value |-> 1800, sourceUrl |-> "/cart"])>>,
   <<Event("custom", <<<<"plan", "pro">>>>), [type |-> "click"]>>}

SessionDetailPayloads ==
  Plans({[session |-> With(SessionObj, "events", evs), visitor |-> VisitorObj] :
           evs \in EventLists}
        \cup {[session |-> SessionSparse], [visitor |-> VisitorObj]})

FlowObj ==
  [name |-> "Checkout", category |-> "conversion",
   canonicalPath |-> <<"/", "/cart", "/pay">>, sessionCount |-> 12,
   visitorCount |-> 9, avgDuration |-> 80, avgPageCount |-> 3,
   positiveSessions |-> 2, negativeSessions |-> 1, neutralSessions |-> 1,
   description |-> "Visitors buying.", variantCount |-> 2]

\* drop-off steps: a usual one, one with no continueRate, one with a negative one
DropOffLists ==
  {<<[page |-> "/cart", continueRate |-> 40]>>,
   <<[page |-> "/cart"]>>,
   <<[page |-> "/cart", continueRate |-> 40], [page |-> "/pay", continueRate |-> -5]>>}

FlowsBase == [flows |-> <<>>, total |-> 0]

FlowsPayloads ==
  Plans({FlowsBase, [total |-> 0],
         [flows |-> <<FlowObj>>, total |-> 1, periodStart |-> "2025-01-01",
          periodEnd |-> Day],
         [flows |-> <<Without(FlowObj, "positiveSessions")>>, total |-> 1],
         [flows |-> <<[name |-> "Bare"]>>, total |-> 1]}
        \cup {[flows |-> <<With(FlowObj, "dropOffSteps", steps)>>, total |-> 1] :
                steps \in DropOffLists})

ListedPage(views) ==
  [path |-> "/p", title |-> "P", firstSeenAt |-> "2025-01-01", lastSeenAt |-> Day,
   viewCount |-> views, uniqueVisitors |-> views, bounceCount |-> 1,
   avgDuration |-> 12, avgScrollDepth |-> 50]

ListPagesPayloads ==
  Plans({[pages |-> <<>>, total |-> 0], [total |-> 0],
         [pages |-> <<Without(ListedPage(0), "viewCount")>>],
         [pages |-> <<[path |-> "/bare"]>>, total |-> 3]}
        \cup {[pages |-> <<ListedPage(v)>>, total |-> 1] : v \in Counts})

FoundElement ==
  [id |-> 4, label |-> "Buy", elementId |-> "buy-btn", tagName |-> "BUTTON",
   category |-> "button", pagePath |-> "/p", totalInteractions |-> 9,
   uniqueVisitors |-> 5, firstSeenAt |-> "2025-01-01", lastSeenAt |-> Day]

ElementPayloads ==
  Plans({[elements |-> <<>>], [total |-> 0],
         [elements |-> <<FoundElement>>],
         [elements |-> <<FoundElement, [id |-> 5]>>]})

PayloadsOf(name) ==
  CASE name = "get_page_context" -> PagePayloads
    [] name = "list_pages" -> ListPagesPayloads
    [] name = "get_element_context" -> ElementPayloads
    [] name = "get_app_context" -> AppPayloads
    [] name = "get_visitors" -> VisitorsPayloads
    [] name = "get_visitor_detail" -> VisitorDetailPayloads
    [] name = "get_sessions" -> SessionsPayloads
    [] name = "get_session_detail" -> SessionDetailPayloads
    [] name = "get_user_flows" -> FlowsPayloads
    [] OTHER -> {}

\* a 2xx response whose body is the JSON text of data
JsonResponse(data) ==
  [kind |-> "http", status |-> 200, body |-> "(JSON)", json |-> TRUE, data |-> data]

\* what the backend or the network may do to a request other than that
Failures ==
  {[kind |-> "reject", message |-> "fetch failed"],
   [kind |-> "http", status |-> 404, body |-> "not found", json |-> FALSE, data |-> <<>>],
   [kind |-> "http", status |-> 500, body |-> "{\"error\":\"boom\"}", json |-> TRUE,
    data |-> [error |-> "boom"]],
   [kind |-> "http", status |-> 200, body |-> "<html>Bad gateway</html>", json |-> FALSE,
    data |-> <<>>]}

\* the payloads of Spec: for each tool one complete and one sparse
FewPayloadsOf(name) ==
  CASE name = "get_page_context" ->
         {With(PageBase, "_dataRetention", [days |-> 30]), Without(PageBase, "stats")}
    [] name = "list_pages" ->
         {[pages |-> <<ListedPage(2)>>, total |-> 1], [total |-> 0]}
    [] name = "get_element_context" -> {[elements |-> <<FoundElement>>], [total |-> 0]}
    [] name = "get_app_context" -> {AppBase, Without(AppBase, "stats")}
    [] name = "get_visitors" -> {VisitorsBase, Without(VisitorsBase, "visitors")}
    [] name = "get_visitor_detail" ->
         {[visitor |-> VisitorObj], [recentSessions |-> <<SessionObj>>]}
    [] name = "get_sessions" -> {SessionsBase, Without(SessionsBase, "sessions")}
    [] name = "get_session_detail" ->
         {[session |-> SessionObj], [visitor |-> VisitorObj]}
    [] name = "get_user_flows" ->
         {[flows |-> <<FlowObj>>, total |-> 1, _dataRetention |-> [days |-> 30]],
          [flows |-> <<With(FlowObj, "dropOffSteps", <<[page |-> "/pay", continueRate |-> -5]>>)>>,
           total |-> 1]}
    [] OTHER -> {}

----------------------------------------------------------------------------
(* Specifications *)

\* Spec: up to MaxCalls calls in flight, any request, any remote outcome
Next ==
  \/ \E c \in CallIds, r \in Requests : CallTool(c, r.name, r.arguments)
  \/ \E c \in CallIds : \E f \in Failures : FetchSettle(c, f)
  \/ \E c \in CallIds : \E d \in FewPayloadsOf(calls[c].name) :
       FetchSettle(c, JsonResponse(d))

Spec == Init /\ [][Next]_vars

\* SpecFmt: one call of a tool at a time whose request passes validation and
\* whose fetch is answered 2xx with any payload of the tool: the formatters
InitFmt ==
  /\ API_KEY = "lc_key"
  /\ host = DefaultHost
  /\ calls = [c \in CallIds |-> Idle]
  /\ probe = ProbeIdle
  /\ proc = Handling
  /\ disk = Installed

NextFmt ==
  \/ \E r \in ValidRequests : CallTool(1, r.name, r.arguments)
  \/ \E d \in PayloadsOf(calls[1].name) : FetchSettle(1, JsonResponse(d))

SpecFmt == InitFmt /\ [][NextFmt]_vars

\* SpecArgs: one call with any arguments of ArgRequests; the backend is down
NextArgs ==
  \/ /\ calls[1].pc = "idle"
     /\ \E r \in ArgRequests : CallTool(1, r.name, r.arguments)
  \/ FetchSettle(1, [kind |-> "reject", message |-> "fetch failed"])

SpecArgs == InitFmt /\ [][NextArgs]_vars

\* SpecPair: up to MaxCalls calls in flight drawn from a few requests, so that
\* calls of one tool with the same arguments meet; any remote outcome
PairRequests ==
  {Req("get_page_context", Args([path |-> Str("/products/shoes")])),
   Req("list_pages", NoArgs),
   Req("list_pages", Args([limit |-> Str("ten")])),
   Req("get_element_context", Args([pagePath |-> Str("/p")])),
   Req("does_not_exist", NoArgs)}

NextPair ==
  \/ \E c \in CallIds, r \in PairRequests : CallTool(c, r.name, r.arguments)
  \/ \E c \in CallIds : \E f \in Failures : FetchSettle(c, f)
  \/ \E c \in CallIds : \E d \in FewPayloadsOf(calls[c].name) :
       FetchSettle(c, JsonResponse(d))

SpecPair == Init /\ [][NextPair]_vars

\* SpecLive: the calls of SpecPair with a remote side that may also keep an
\* exchange open for ever. The handler's own steps are fair: a fetch that can
\* settle does settle unless the exchange has stalled
Settle(c) ==
  \/ \E f \in Failures : FetchSettle(c, f)
  \/ \E d \in FewPayloadsOf(calls[c].name) : FetchSettle(c, JsonResponse(d))

NextLive ==
  \/ \E c \in CallIds, r \in PairRequests : CallTool(c, r.name, r.arguments)
  \/ \E c \in CallIds : Settle(c)
  \/ \E c \in CallIds : FetchStall(c)

SpecLive == Init /\ [][NextLive]_vars /\ \A c \in CallIds : WF_vars(Settle(c))

\* SpecApi: apiRequest called once by a caller that may pass options, among
\* them headers of its own; any remote outcome
CallerHeaders ==
  {<<>>} \cup {(n :> v) : n \in {"X-API-Key", "Accept", "Content-Type"},
                          v \in {"other", "text/plain"}}
         \cup {("X-API-Key" :> "other") @@ ("Accept" :> v) : v \in {"other", "text/plain"}}

CallerOptions ==
  {DefaultOptions, [method |-> "GET"]}
  \cup {[headers |-> h] : h \in CallerHeaders}
  \cup {[method |-> "GET", headers |-> h] : h \in CallerHeaders}

InitApi ==
  /\ API_KEY \in KeyValues
  /\ host = DefaultHost
  /\ calls = [c \in CallIds |-> Idle]
  /\ probe = ProbeIdle
  /\ proc = Handling
  /\ disk = Installed

NextApi ==
  \/ \E e \in {"/api/mcp/pages", "/api/mcp/app", "/api/mcp/flows"}, o \in CallerOptions : ApiRequest(e, o)
  \/ \E f \in Failures : ApiRequestSettle(f)
  \/ ApiRequestSettle(JsonResponse([total |-> 0]))

SpecApi == InitApi /\ [][NextApi]_vars

\* SpecBoot: the process from its command line on: the flags, main, the
\* update check in the background, and once connected discovery and tool calls
BootArgvs == {{}, {"--version"}, {"-v"}, {"--help"}, {"-h"}, {"--verbose"}}

CheckOutcomes ==
  {[kind |-> "reject"], [kind |-> "abort"],
   [kind |-> "http", ok |-> FALSE, json |-> TRUE, release |-> [message |-> "Not Found"]],
   [kind |-> "http", ok |-> TRUE, json |-> FALSE, release |-> <<>>],
   [kind |-> "http", ok |-> TRUE, json |-> TRUE, release |-> [message |-> "rate limit"]]}
  \cup {[kind |-> "http", ok |-> TRUE, json |-> TRUE, release |-> [tag_name |-> t]] :
          t \in {"v1.4.0", "v1.5.0", "v1.3.9", "1.10", "latest"}}

InitBoot ==
  /\ API_KEY \in KeyValues
  /\ host = DefaultHost
  /\ calls = [c \in CallIds |-> Idle]
  /\ probe = ProbeIdle
  /\ proc = ProcOff
  /\ disk = Installed

NextBoot ==
  \/ \E argv \in BootArgvs : Launch(argv)
  \/ \E o \in CheckOutcomes : CheckSettle(o)
  \/ Connect
  \/ ConnectFail
  \/ ListTools
  \/ /\ proc.pc = "serving"
     /\ \E c \in CallIds, r \in PairRequests : CallTool(c, r.name, r.arguments)
  \/ /\ proc.pc = "serving"
     /\ \E c \in CallIds : Settle(c)

SpecBoot == InitBoot /\ [][NextBoot]_vars

\* SpecUpdate: the process run with or without --update, on a disk where an
\* earlier update may have left a .backup or a partly written .new
UpdateArgvs == {{"--update"}, {"--update", "--verbose"}, {}}

Disks ==
  {[exec |-> "old", new |-> n, backup |-> b] :
     n \in {"absent", "partial"}, b \in {"absent", "stale"}}

ReleaseOutcomes ==
  {[kind |-> "reject"],
   [kind |-> "http", json |-> FALSE, release |-> <<>>],
   [kind |-> "http", json |-> TRUE, release |-> [message |-> "rate limit"]],
   [kind |-> "http", json |-> TRUE, release |-> [tag_name |-> "v1.5.0"]]}
  \cup {[kind |-> "http", json |-> TRUE, release |-> [tag_name |-> t, assets |-> a]] :
          t \in {"v1.4.0", "v1.5.0"},
          a \in {{}, {"lcontext-macos-arm64"}, {"lcontext-linux-x64", "lcontext-macos-arm64"}}}

DownloadOutcomes ==
  {[kind |-> "reject"], [kind |-> "http", body |-> "new"], [kind |-> "http", body |-> "page"]}

InitUpdate ==
  /\ API_KEY \in KeyValues
  /\ host = DefaultHost
  /\ calls = [c \in CallIds |-> Idle]
  /\ probe = ProbeIdle
  /\ proc = ProcOff
  /\ disk \in Disks

NextUpdate ==
  \/ \E argv \in UpdateArgvs : Launch(argv)
  \/ \E o \in CheckOutcomes : CheckSettle(o)
  \/ Connect
  \/ ConnectFail
  \/ \E o \in ReleaseOutcomes : ReleaseSettle(o)
  \/ \E o \in DownloadOutcomes : DownloadSettle(o)
  \/ \E ok \in BOOLEAN : WriteTemp(ok)
  \/ \E ok \in BOOLEAN : ChmodTemp(ok)
  \/ \E ok \in BOOLEAN : UnlinkStaleBackup(ok)
  \/ \E ok \in BOOLEAN : RenameExecToBackup(ok)
  \/ \E ok \in BOOLEAN : RenameTempToExec(ok)
  \/ \E ok \in BOOLEAN : UnlinkBackup(ok)

SpecUpdate == InitUpdate /\ [][NextUpdate]_vars

\* SpecDecode: calls whose request is answered 2xx with a body that is not
\* JSON, of a length below, at and above the 200 characters of the snippet
SnippetLen == 200

\* n times the character ch
RECURSIVE Filler(_, _)
Filler(ch, n) ==
  IF n = 0 THEN ""
  ELSE Filler(ch, n \div 2) \o Filler(ch, n \div 2) \o (IF n % 2 = 1 THEN ch ELSE "")

RawBodies ==
  {"", "<html>Bad gateway</html>"}
  \cup {Filler("x", n) : n \in {SnippetLen - 1, SnippetLen, SnippetLen + 1}}
  \cup {Filler("x", SnippetLen) \o Filler("y", n) : n \in 1..MaxOver}

NotJson(body) == [kind |-> "http", status |-> 200, body |-> body, json |-> FALSE, data |-> <<>>]

NotJsonResponses == {NotJson(body) : body \in RawBodies}

NextDecode ==
  \/ \E c \in CallIds : \E r \in {Req("list_pages", NoArgs), Req("get_app_context", Args(<<>>))} :
       CallTool(c, r.name, r.arguments)
  \/ \E c \in CallIds : \E response \in NotJsonResponses : FetchSettle(c, response)

SpecDecode == InitFmt /\ [][NextDecode]_vars

\* SpecCatalog: a client that asks for the list of tools now and then and
\* calls a tool by a name of the list or by another name
OutsideNames ==
  {"does_not_exist", "", "get_page_context ", "GET_PAGE_CONTEXT", "list_page",
   "analytics-guide"}

CatalogRequests == ValidRequests \cup {Req(name, NoArgs) : name \in OutsideNames}

NextCatalog ==
  \/ ListTools
  \/ /\ calls[1].pc = "idle"
     /\ \E r \in CatalogRequests : CallTool(1, r.name, r.arguments)
  \/ \E f \in Failures : FetchSettle(1, f)
  \/ \E d \in FewPayloadsOf(calls[1].name) : FetchSettle(1, JsonResponse(d))

SpecCatalog == InitFmt /\ [][NextCatalog]_vars

\* SpecHost: the server on any machine. The formatters take the locale and the
\* time zone from the machine (toLocaleDateString() and the like are called
\* with no argument), and the client may stop the server and start it on
\* another one; calls keeps what the client was answered before
HostRequests ==
  {Req("get_page_context", Args([path |-> Str("/products/shoes")])),
   Req("get_session_detail", Args([sessionId |-> Num(7)])),
   Req("get_app_context", Args(<<>>))}

InitHost ==
  /\ API_KEY = "lc_key"
  /\ host \in Hosts
  /\ calls = [c \in CallIds |-> Idle]
  /\ probe = ProbeIdle
  /\ proc = Handling
  /\ disk = Installed

\* the process ends and is started on a machine e; no call is pending
Restart(e) ==
  /\ \A c \in CallIds : calls[c].pc # "awaiting"
  /\ host' = e
  /\ UNCHANGED <<API_KEY, calls, probe, proc, disk>>

NextHost ==
  \/ \E c \in CallIds, r \in HostRequests : CallTool(c, r.name, r.arguments)
  \/ \E c \in CallIds : \E d \in FewPayloadsOf(calls[c].name) :
       FetchSettle(c, JsonResponse(d))
  \/ \E e \in Hosts \ {host} : Restart(e)

SpecHost == InitHost /\ [][NextHost]_vars

----------------------------------------------------------------------------
(* Properties of the call handler (Spec) *)

\* the success shape {content: [{type: 'text', text}]}, with no isError
IsSuccessShape(e) ==
  /\ DOMAIN e = {"content"}
  /\ Len(e.content) = 1
  /\ DOMAIN e.content[1] = {"type", "text"}
  /\ e.content[1].type = "text"

\* the error shape {isError: true, content: [{type: 'text', text}]}
IsErrorShape(e) ==
  /\ DOMAIN e = {"isError", "content"}
  /\ e.isError = TRUE
  /\ Len(e.content) = 1
  /\ DOMAIN e.content[1] = {"type", "text"}
  /\ e.content[1].type = "text"

\* the envelope call c returned, its text as lines and as one string
EnvelopeOf(c) == calls[c].envelopes[1]
LinesOf(c) == EnvelopeOf(c).content[1].text
TextOf(c) == Join(LinesOf(c), "\n")

Invoked(c) == calls[c].pc # "idle"
Done(c) == calls[c].pc = "done"

\* call c got a 2xx answer whose body parsed as JSON
Answered(c) ==
  /\ Len(calls[c].responses) = 1
  /\ calls[c].responses[1].kind = "http"
  /\ calls[c].responses[1].status \in 200..299
  /\ calls[c].responses[1].json

DataOf(c) == calls[c].responses[1].data

\* C1: whatever the tool name, the arguments (absent ones included) and the
\* remote outcome (rejected fetch, non-2xx status, non-JSON body, payload the
\* formatter throws on), no exception leaves the handler, and a call that
\* ended returned exactly one envelope, of the success shape or of the error
\* shape; a call that has not ended returned none.
C1_OneEnvelopeNoEscape ==
  \A c \in CallIds :
    /\ calls[c].pc \in {"idle", "awaiting", "done"}
    /\ calls[c].escaped = <<>>
    /\ Done(c) =>
         /\ Len(calls[c].envelopes) = 1
         /\ IsSuccessShape(EnvelopeOf(c)) \/ IsErrorShape(EnvelopeOf(c))
    /\ ~Done(c) => calls[c].envelopes = <<>>

\* a call whose payload made the formatter throw ended in the error envelope
\* while another call, made with no arguments at all, ended too
C1_Witness ==
  \E c, d \in CallIds :
    /\ Done(c) /\ Answered(c) /\ calls[c].formatted
    /\ IsErrorShape(EnvelopeOf(c))
    /\ Done(d) /\ ~calls[d].arguments.given /\ calls[d].name = "get_page_context"
    /\ IsErrorShape(EnvelopeOf(d))

\* C2: a call whose name is not a name of the Tool Catalog ends at once in the
\* error envelope whose text is exactly "Unknown tool: <name>", and no remote
\* request is made for it.
C2_UnknownTool ==
  \A c \in CallIds :
    (Invoked(c) /\ calls[c].name \notin ListToolsNames) =>
      /\ Done(c)
      /\ calls[c].envelopes = <<Failure(<<"Unknown tool: " \o calls[c].name>>)>>
      /\ calls[c].fetches = <<>>

C2_Witness ==
  \E c \in CallIds :
    /\ calls[c].name = "does_not_exist"
    /\ Done(c)
    /\ IsErrorShape(EnvelopeOf(c))
    /\ LinesOf(c) = <<"Unknown tool: does_not_exist">>
    /\ calls[c].fetches = <<>>

\* neither elementLabel nor elementId is set in the arguments of call c: each
\* is absent or empty
NeitherIdentifierSet(c) ==
  \A f \in {"elementLabel", "elementId"} :
    \/ ~calls[c].arguments.given
    \/ ~Has(calls[c].arguments.bag, f)
    \/ /\ calls[c].arguments.bag[f].t = "string"
       /\ calls[c].arguments.bag[f].v = ""

\* C3 as stated: a get_element_context call in which neither elementLabel nor
\* elementId is set returns the error envelope with the message "Either
\* elementLabel or elementId is required", and apiRequest is never invoked.
C3_AsStated ==
  \A c \in CallIds :
    (Invoked(c) /\ calls[c].name = "get_element_context" /\ NeitherIdentifierSet(c)) =>
      /\ Done(c)
      /\ calls[c].envelopes = <<Failure(<<"Either elementLabel or elementId is required">>)>>
      /\ calls[c].fetches = <<>>

\* C3: a get_element_context call in which neither elementLabel nor
\* elementId is set returns an error envelope and apiRequest is never invoked;
\* the message is "Either elementLabel or elementId is required" whenever the
\* arguments pass the schema (arguments the schema rejects, such as a pagePath
\* that is not a string, are reported as the validation failure).
C3_NoIdentifier ==
  \A c \in CallIds :
    (Invoked(c) /\ calls[c].name = "get_element_context" /\ NeitherIdentifierSet(c)) =>
      /\ Done(c)
      /\ Len(calls[c].envelopes) = 1
      /\ IsErrorShape(EnvelopeOf(c))
      /\ calls[c].fetches = <<>>
      /\ Issues(getElementContextSchema, OrEmpty(calls[c].arguments).bag) = {} =>
           LinesOf(c) = <<"Either elementLabel or elementId is required">>

C3_Witness ==
  \E c \in CallIds :
    /\ calls[c].name = "get_element_context"
    /\ calls[c].arguments = Args([elementLabel |-> Str(""), elementId |-> Str("")])
    /\ Done(c)
    /\ LinesOf(c) = <<"Either elementLabel or elementId is required">>
    /\ calls[c].fetches = <<>>

\* C4: for every tool, arguments that fail the tool's schema (a required
\* path, visitorId or sessionId missing, a value of the wrong type or outside
\* the enumeration, no arguments at all where the schema needs some) end the
\* call in an error envelope and no remote request is issued in that call.
C4_ValidationBeforeRequest ==
  \A c \in CallIds :
    (Invoked(c) /\ Req(calls[c].name, calls[c].arguments) \in InvalidRequests) =>
      /\ Done(c)
      /\ Len(calls[c].envelopes) = 1
      /\ IsErrorShape(EnvelopeOf(c))
      /\ calls[c].fetches = <<>>
      /\ calls[c].responses = <<>>

C4_Witness ==
  \E c, d \in CallIds :
    /\ calls[c].name = "get_page_context" /\ calls[c].arguments = Args(<<>>)
    /\ Done(c) /\ IsErrorShape(EnvelopeOf(c)) /\ calls[c].fetches = <<>>
    /\ calls[d].name = "get_session_detail"
    /\ calls[d].arguments = Args([sessionId |-> Str("7")])
    /\ Done(d) /\ IsErrorShape(EnvelopeOf(d)) /\ calls[d].fetches = <<>>

\* C5: when the backend answers the request of a call with a status S outside
\* 200-299 and body B, the call returns an error envelope, never a success
\* envelope, no formatter runs, and the text holds both S and B verbatim.
C5_RemoteErrorSurfaced ==
  \A c \in CallIds :
    (/\ Len(calls[c].responses) = 1
     /\ calls[c].responses[1].kind = "http"
     /\ calls[c].responses[1].status \notin 200..299) =>
      /\ Done(c)
      /\ Len(calls[c].envelopes) = 1
      /\ IsErrorShape(EnvelopeOf(c))
      /\ ~calls[c].formatted
      /\ Contains(TextOf(c), ToString(calls[c].responses[1].status))
      /\ Contains(TextOf(c), calls[c].responses[1].body)

C5_Witness ==
  \E c \in CallIds :
    /\ Len(calls[c].responses) = 1
    /\ calls[c].responses[1].kind = "http"
    /\ calls[c].responses[1].status = 404
    /\ calls[c].responses[1].body = "not found"
    /\ Done(c)
    /\ IsErrorShape(EnvelopeOf(c))
    /\ Contains(TextOf(c), "404") /\ Contains(TextOf(c), "not found")

----------------------------------------------------------------------------
(* Properties of the reports (SpecFmt) *)

\* call c ended in a report made from the payload of a 2xx answer
Reported(c) == Done(c) /\ Answered(c) /\ IsSuccessShape(EnvelopeOf(c))

HasLine(c, line) == \E i \in 1..Len(LinesOf(c)) : LinesOf(c)[i] = line

\* C7: whenever the remote response holds _dataRetention {days: D} and the
\* call returns a success envelope, the text ends with a notice mentioning
\* "D days", for each of the nine tools and also when the list of items
\* (pages, elements, visitors, sessions, flows) is empty.
C7_RetentionNoticeAlways ==
  \A c \in CallIds :
    (Reported(c) /\ Has(DataOf(c), "_dataRetention")) =>
      Contains(LinesOf(c)[Len(LinesOf(c))],
               NumStr(DataOf(c)["_dataRetention"], "days") \o " days")

\* the lines that follow line i up to the next blank line or the end
RowsAfter(lines, i) ==
  LET stops == {j \in (i + 1)..(Len(lines) + 1) : j = Len(lines) + 1 \/ lines[j] = ""}
      stop == CHOOSE j \in stops : \A k \in stops : j <= k
  IN SubSeq(lines, i + 1, stop - 1)

\* a "...and n more" line
IsMarker(line, n) == Contains(line, "...and " \o ToString(n) \o " more")

\* the rows under the header at line i: cap items, then one marker for the rest
CappedAt(lines, i, total, cap) ==
  LET rows == RowsAfter(lines, i)
  IN /\ Len(rows) = cap + 1
     /\ \A j \in 1..cap : ~Contains(rows[j], "...and ")
     /\ IsMarker(rows[cap + 1], total - cap)

\* the section of data[f] under `header`, when data[f] has more items than cap
CappedSection(c, f, header, cap) ==
  (Has(DataOf(c), f) /\ Len(DataOf(c)[f]) > cap) =>
    \E i \in 1..Len(LinesOf(c)) :
      /\ LinesOf(c)[i] = header
      /\ CappedAt(LinesOf(c), i, Len(DataOf(c)[f]), cap)

\* the elements section of the page report: cap blocks and one marker
CappedElements(c) ==
  LET elements == DataOf(c).elements
      lines == LinesOf(c)
  IN /\ Len(elements) > ElementCap =>
          /\ Cardinality({i \in 1..Len(lines) :
                            StartsWith(lines[i], "- Total Interactions: ")}) = ElementCap
          /\ \E i \in 1..Len(lines) : IsMarker(lines[i], Len(elements) - ElementCap)
     \* the period rows of each element (all of them are shown up to the cap)
     /\ Len(elements) <= ElementCap =>
          \A n \in 1..(MaxOver + 1) :
            Cardinality({i \in 1..Len(lines) :
                           /\ lines[i] = "- Per-period breakdown:"
                           /\ CappedAt(lines, i, ElementPeriodCap + n, ElementPeriodCap)})
            = Cardinality({j \in 1..Len(elements) :
                             Len(elements[j].stats) = ElementPeriodCap + n})

\* C8: every capped list section of a report (cap 5 for top referrers, pages,
\* countries, devices, browsers and OS, cap 7 for daily breakdowns and the
\* period rows of an element, cap 20 for the elements of a page), given more
\* items than its cap, renders exactly cap items followed by one
\* "...and N more" line with N = total - cap.
C8_TruncationMarked ==
  \A c \in CallIds :
    /\ (Reported(c) /\ calls[c].name = "get_page_context") =>
         /\ CappedSection(c, "stats", "**Recent Daily Breakdown:**", DailyCap)
         /\ CappedElements(c)
    /\ (Reported(c) /\ calls[c].name = "get_app_context") =>
         /\ CappedSection(c, "stats", "### Daily Breakdown", AppDailyCap)
         /\ CappedSection(c, "topPages", "### Top Pages by Views", TopCap)
         /\ CappedSection(c, "topEntryPages", "### Top Entry Pages", TopCap)
         /\ CappedSection(c, "topExitPages", "### Top Exit Pages", TopCap)
         /\ CappedSection(c, "topReferrers", "### Top Referrers", TopCap)
         /\ CappedSection(c, "topCountries", "### Top Countries", TopCap)
         /\ CappedSection(c, "topDevices", "### Device Breakdown", TopCap)
         /\ CappedSection(c, "topBrowsers", "### Top Browsers", TopCap)
         /\ CappedSection(c, "topOS", "### Top Operating Systems", TopCap)

\* the object a detail report is about is in the payload
SkeletonPresent(c) ==
  /\ calls[c].name = "get_page_context" => Has(DataOf(c), "page")
  /\ calls[c].name = "get_visitor_detail" => Has(DataOf(c), "visitor")
  /\ calls[c].name = "get_session_detail" => Has(DataOf(c), "session")

\* C9: no formatter fails because of sparse data: for every tool and every
\* payload in which an optional field is missing (stats, the stats of an
\* element, an absolute sourceUrl of a web_vital event, the continueRate of a
\* drop-off step or a non-negative one, the positiveSessions of a flow) the
\* call returns a report, and the report shows a fallback, not NaN or
\* undefined.
C9_SparseDataTolerated ==
  \A c \in CallIds :
    (Done(c) /\ Answered(c) /\ SkeletonPresent(c)) =>
      /\ IsSuccessShape(EnvelopeOf(c))
      /\ ~Contains(TextOf(c), "NaN")
      /\ ~Contains(TextOf(c), "undefined")

\* C10: in the page report and in the app report a rate whose denominator is
\* zero is rendered "0%": Entry Rate and Exit Rate when the views of a
\* non-empty stats list sum to 0, Bounce Rate when its sessions sum to 0.
C10_ZeroDenominatorRate ==
  \A c \in CallIds :
    (Reported(c) /\ Has(DataOf(c), "stats") /\ Len(DataOf(c).stats) > 0) =>
      /\ (calls[c].name = "get_page_context"
          /\ SumOver(DataOf(c).stats, "viewCount") = 0) =>
           /\ HasLine(c, "- Entry Rate: 0%")
           /\ HasLine(c, "- Exit Rate: 0%")
      /\ (calls[c].name = "get_app_context"
          /\ SumOver(DataOf(c).stats, "totalSessions") = 0) =>
           HasLine(c, "- **Bounce Rate:** 0%")

\* a page report over days with entries and exits but no views
C10_Witness ==
  \E c \in CallIds :
    /\ Reported(c)
    /\ calls[c].name = "get_page_context"
    /\ Len(DataOf(c).stats) > 1
    /\ SumOver(DataOf(c).stats, "viewCount") = 0
    /\ SumOver(DataOf(c).stats, "entryCount") > 0
    /\ HasLine(c, "- Entry Rate: 0%")

\* what call c comes to when it runs alone, from its own name, arguments and
\* remote response: after its first step, and after its fetch settled
AloneStart(c) == Catch(TryStart(API_KEY, calls[c].name, calls[c].arguments))
AloneFinish(c) == Catch(TryFinish(calls[c].name, calls[c].responses[1]))

\* C14: calls in flight together are independent, also calls of one tool with
\* the same arguments: each call sends its own remote request (none is
\* shared, cached or left out) and returns the envelope it would return alone
\* with the same remote response.
C14_CallsIndependent ==
  \A c \in CallIds :
    Invoked(c) =>
      /\ calls[c].escaped = <<>>
      /\ IF AloneStart(c).kind = "fetch"
         THEN /\ calls[c].fetches = <<AloneStart(c).request>>
              /\ IF calls[c].responses = <<>>
                 THEN calls[c].pc = "awaiting" /\ calls[c].envelopes = <<>>
                 ELSE /\ Len(calls[c].responses) = 1
                      /\ Done(c)
                      /\ calls[c].envelopes = <<AloneFinish(c).envelope>>
         ELSE /\ calls[c].fetches = <<>> /\ calls[c].responses = <<>>
              /\ Done(c)
              /\ calls[c].envelopes = <<AloneStart(c).envelope>>

\* two calls of one tool with the same arguments are in flight together and
\* each has sent its request
C14_Witness ==
  /\ calls[1].pc = "awaiting" /\ calls[2].pc = "awaiting"
  /\ calls[1].name = calls[2].name /\ calls[1].arguments = calls[2].arguments
  /\ Len(calls[1].fetches) = 1 /\ calls[1].fetches = calls[2].fetches

----------------------------------------------------------------------------
(* Properties of the requests (SpecArgs) *)

\* the character a %XX escape stands for
Unescaped(code) ==
  CASE code = "2F" -> "/"
    [] code = "3F" -> "?"
    [] code = "23" -> "#"
    [] code = "26" -> "&"
    [] code = "3D" -> "="
    [] code = "25" -> "%"
    [] code = "20" -> " "
    [] code = "3A" -> ":"
    [] code = "2B" -> "+"
    [] code = "22" -> "\""

\* decodeURIComponent
RECURSIVE PercentDecode(_)
PercentDecode(str) ==
  IF str = "" THEN ""
  ELSE IF SubSeq(str, 1, 1) = "%"
       THEN Unescaped(SubSeq(str, 2, 3)) \o PercentDecode(SubSeq(str, 4, Len(str)))
       ELSE SubSeq(str, 1, 1) \o PercentDecode(SubSeq(str, 2, Len(str)))

\* how many times sub occurs in str
Occurrences(str, sub) ==
  Cardinality({i \in 1..(Len(str) - Len(sub) + 1) : SubSeq(str, i, i + Len(sub) - 1) = sub})

\* the url of the request call c issued, and what follows `prefix` in it
UrlOf(c) == calls[c].fetches[1].url
UrlAfter(c, prefix) == SubSeq(UrlOf(c), Len(API_BASE_URL \o prefix) + 1, Len(UrlOf(c)))

\* the url of call c is the origin, `prefix`, one path segment that is the
\* percent-encoded `value`, and then nothing or a query
OneEncodedSegment(c, prefix, value) ==
  LET rest == UrlAfter(c, prefix)
      segment == UpTo(rest, {"?"})
  IN /\ StartsWith(UrlOf(c), API_BASE_URL \o prefix)
     /\ \A ch \in {"/", "?", "#", "&"} : ~Contains(segment, ch)
     /\ Occurrences(segment, "%2F") = Occurrences(value, "/")
     /\ PercentDecode(segment) = value
     /\ ~Contains(rest, "#")
     /\ Occurrences(rest, "?") <= 1

\* C11: for every path of a get_page_context call the endpoint is
\* /api/mcp/pages/ followed by the percent-encoded path, every "/" of the path
\* showing as %2F, so that the path adds no segment and its "?", "#" and "&"
\* start no query or fragment; the same for the visitorId of
\* get_visitor_detail after /api/mcp/visitors/.
C11_PathIsOneSegment ==
  \A c \in CallIds :
    calls[c].fetches # <<>> =>
      /\ calls[c].name = "get_page_context" =>
           /\ OneEncodedSegment(c, "/api/mcp/pages/", calls[c].arguments.bag.path.v)
           /\ \/ UrlAfter(c, "/api/mcp/pages/" \o encodeURIComponent(calls[c].arguments.bag.path.v)) = ""
              \/ \E f \in {"startDate", "endDate", "periodType"} :
                   StartsWith(UrlAfter(c, "/api/mcp/pages/"
                                          \o encodeURIComponent(calls[c].arguments.bag.path.v)),
                              "?" \o f \o "=")
      /\ calls[c].name = "get_visitor_detail" =>
           /\ OneEncodedSegment(c, "/api/mcp/visitors/", calls[c].arguments.bag.visitorId.v)
           /\ ~Contains(UrlAfter(c, "/api/mcp/visitors/"), "?")

C11_Witness ==
  \E c \in CallIds :
    /\ calls[c].name = "get_page_context"
    /\ calls[c].arguments = Args(("path" :> Str("/?")))
    /\ calls[c].fetches # <<>>
    /\ UrlOf(c) = "https://lcontext.com/api/mcp/pages/%2F%3F?periodType=day"

\* the request of call c addresses one non-empty segment below prefix
OneSegmentBelow(c, prefix) ==
  LET target == RequestPath(UrlOf(c))
      rest == SubSeq(target, Len(prefix) + 1, Len(target))
  IN /\ StartsWith(target, prefix)
     /\ rest # ""
     /\ ~Contains(rest, "/")

\* C29: for every path of get_page_context and every visitorId of
\* get_visitor_detail that validation accepts, the empty string and the dot
\* segments "." and ".." included, the request addresses a resource exactly
\* one non-empty segment below /api/mcp/pages/ (/api/mcp/visitors/): never
\* the list endpoint and never a location outside that prefix.
C29_TargetBelowPrefix ==
  \A c \in CallIds :
    calls[c].fetches # <<>> =>
      /\ calls[c].name = "get_page_context" => OneSegmentBelow(c, "/api/mcp/pages/")
      /\ calls[c].name = "get_visitor_detail" => OneSegmentBelow(c, "/api/mcp/visitors/")

\* the arguments call c was given
BagOf(c) == calls[c].arguments.bag

\* the numeric fields that are counts or offsets
CountFields ==
  {"limit", "offset", "minSessions", "minDuration", "maxDuration",
   "minEventsCount", "maxEventsCount"}

\* C17: a count or offset field (limit, offset, minSessions, minDuration,
\* maxDuration, minEventsCount, maxEventsCount) is never negative in a
\* validated parameter set: a call that gives such a field a negative value is
\* rejected by validation and sends no request.
C17_NoNegativeCount ==
  \A c \in CallIds :
    (/\ Invoked(c)
     /\ \E f \in CountFields \cap DOMAIN BagOf(c) :
          BagOf(c)[f].t = "number" /\ BagOf(c)[f].v < 0)
    => /\ calls[c].fetches = <<>>
       /\ Done(c) /\ IsErrorShape(EnvelopeOf(c))

\* the query of a url (what follows its first "?") as its name=value pairs
QueryOf(url) == SubSeq(url, Len(UpTo(url, {"?"})) + 2, Len(url))

QueryPairs(url) ==
  IF QueryOf(url) = "" THEN <<>>
  ELSE LET parts == Split(QueryOf(url), "&")
       IN [i \in 1..Len(parts) |->
             [name |-> UpTo(parts[i], {"="}),
              value |-> SubSeq(parts[i], Len(UpTo(parts[i], {"="})) + 2, Len(parts[i]))]]

\* the enumerated parameters and their declared values
EnumFields == {"periodType", "engagementTrend", "overallSentiment", "sentiment"}

EnumValues(f) ==
  CASE f = "periodType" -> {"day", "week"}
    [] f = "engagementTrend" -> {"increasing", "stable", "decreasing"}
    [] f = "overallSentiment" -> {"positive", "negative", "neutral", "mixed"}
    [] f = "sentiment" -> {"positive", "negative", "neutral"}

\* call c was given a value outside the declared set for an enumerated
\* parameter of its tool
OutsideEnum(c) ==
  \E f \in EnumFields \cap DOMAIN BagOf(c) \cap DOMAIN SchemaOf(calls[c].name) :
    ~(BagOf(c)[f].t = "string" /\ BagOf(c)[f].v \in EnumValues(f))

\* C18: enumerated parameters are validated strictly: a call that passes a
\* value outside the declared set for periodType (day, week), engagementTrend
\* (increasing, stable, decreasing), overallSentiment (positive, negative,
\* neutral, mixed) or sentiment (positive, negative, neutral) returns an error
\* envelope and sends no request; so every enumerated parameter in a request
\* holds one of its declared values.
C18_EnumsStrict ==
  \A c \in CallIds :
    Invoked(c) =>
      /\ OutsideEnum(c) =>
           /\ calls[c].fetches = <<>>
           /\ Done(c) /\ IsErrorShape(EnvelopeOf(c))
      /\ \A i \in 1..Len(calls[c].fetches) :
           LET pairs == QueryPairs(calls[c].fetches[i].url)
           IN \A k \in 1..Len(pairs) :
                pairs[k].name \in EnumFields => pairs[k].value \in EnumValues(pairs[k].name)

\* get_sessions was asked for the sentiment "bogus" and nothing else, and
\* was refused
C18_Witness ==
  /\ calls[1].name = "get_sessions"
  /\ DOMAIN BagOf(1) = {"sentiment"} /\ BagOf(1).sentiment = Str("bogus")
  /\ Done(1) /\ IsErrorShape(EnvelopeOf(1)) /\ calls[1].fetches = <<>>
  /\ StartsWith(TextOf(1), "Error: ")

\* an argument bag conforms to a declared input shape: the required fields
\* are there, and each declared field that is there has the declared type
\* and, for an enumeration, one of the declared values
Conforms(shape, bag) ==
  /\ shape.required \subseteq DOMAIN bag
  /\ \A f \in DOMAIN shape.properties \cap DOMAIN bag :
       /\ bag[f].t = shape.properties[f].type
       /\ Has(shape.properties[f], "enum") => bag[f].v \in shape.properties[f].enum

\* the declared shape and the schema agree on the fields, their types, the
\* required ones and the value sets
SameDeclaration(shape, schema) ==
  /\ DOMAIN shape.properties = DOMAIN schema
  /\ shape.required = {f \in DOMAIN schema : ~schema[f].optional}
  /\ \A f \in DOMAIN schema :
       IF schema[f].type = "enum"
       THEN /\ shape.properties[f].type = "string"
            /\ Has(shape.properties[f], "enum")
            /\ shape.properties[f].enum = schema[f].values
       ELSE /\ shape.properties[f].type = schema[f].type
            /\ ~Has(shape.properties[f], "enum")

\* C19: for each of the nine tools the input shape declared in the catalog
\* is consistent with the parameter schema that validates its calls: same
\* field names, types, required fields and value sets of enumerated fields,
\* so that the schema accepts an argument bag exactly when the bag conforms to
\* the declared shape (so for get_user_flows.category, declared as an
\* enumeration of six values).
C19_CatalogMatchesSchema ==
  \A c \in CallIds :
    Invoked(c) =>
      /\ SameDeclaration(inputSchema(calls[c].name), SchemaOf(calls[c].name))
      /\ ZodParse(SchemaOf(calls[c].name), calls[c].arguments).ok
         <=> Conforms(inputSchema(calls[c].name), BagOf(c))

\* a value of a query read back: "+" is a space, %XX the character it stands for
RECURSIVE PlusToSpace(_)
PlusToSpace(str) ==
  IF str = "" THEN ""
  ELSE (IF SubSeq(str, 1, 1) = "+" THEN " " ELSE SubSeq(str, 1, 1))
       \o PlusToSpace(SubSeq(str, 2, Len(str)))

FormDecode(str) == PercentDecode(PlusToSpace(str))

\* the validated parameter set of call c: the fields of the schema the caller
\* gave or a declared default fills
ValidatedOf(c) == Parsed(SchemaOf(calls[c].name), BagOf(c))

\* C20: for every tool and argument bag the query of the endpoint holds only
\* parameters that are in the validated parameter set (given by the caller or
\* filled by a declared default), each once and with its value; an optional
\* parameter that is absent and has no default is not in it; and when no
\* parameter is written the endpoint has no query string at all.
C20_QueryOnlyPresent ==
  \A c \in CallIds :
    calls[c].fetches # <<>> =>
      LET pairs == QueryPairs(UrlOf(c))
      IN /\ \A k \in 1..Len(pairs) :
              /\ pairs[k].name \in DOMAIN ValidatedOf(c)
              /\ FormDecode(pairs[k].value) = ArgString(ValidatedOf(c), pairs[k].name)
              /\ \A j \in 1..Len(pairs) : pairs[j].name = pairs[k].name => j = k
         /\ pairs = <<>> => ~Contains(UrlOf(c), "?")

\* get_visitors asked to search "a&limit=9": limit is the default, the search
\* is one parameter, offset (default 0) and the absent filters are not there
C20_Witness ==
  /\ calls[1].name = "get_visitors"
  /\ DOMAIN BagOf(1) = {"search"} /\ BagOf(1).search = Str("a&limit=9")
  /\ calls[1].fetches # <<>>
  /\ UrlOf(1) = "https://lcontext.com/api/mcp/visitors?limit=20&search=a%26limit%3D9"

\* the parameters written under `!== undefined`, and the tools whose
\* arguments all go to the query (get_page_context puts `path` in the path)
DefinedFields ==
  {"minDuration", "maxDuration", "minEventsCount", "maxEventsCount", "minSessions"}

QueryTools ==
  {"get_page_context", "list_pages", "get_element_context", "get_app_context",
   "get_visitors", "get_sessions", "get_user_flows"}

\* parameter f is in the query of call c, once, with the validated value
InQuery(c, f) ==
  LET pairs == QueryPairs(UrlOf(c))
  IN /\ \E k \in 1..Len(pairs) :
          /\ pairs[k].name = f
          /\ FormDecode(pairs[k].value) = ArgString(ValidatedOf(c), f)
     /\ Cardinality({k \in 1..Len(pairs) : pairs[k].name = f}) = 1

NotInQuery(c, f) ==
  \A k \in 1..Len(QueryPairs(UrlOf(c))) : QueryPairs(UrlOf(c))[k].name # f

\* C27: minDuration, maxDuration, minEventsCount, maxEventsCount and
\* minSessions are in the query string whenever they are supplied, the value
\* 0 included; every other numeric parameter (limit, offset, segmentId) is in
\* it only when it is not 0 and every string parameter only when it is not
\* empty, so that a supplied limit=0, offset=0, segmentId=0 or empty string
\* never reaches the backend.
C27_ZeroForwarding ==
  \A c \in CallIds :
    (calls[c].fetches # <<>> /\ calls[c].name \in QueryTools) =>
      \A f \in DOMAIN ValidatedOf(c) \ {"path"} :
        LET a == ValidatedOf(c)[f]
        IN IF f \in DefinedFields THEN InQuery(c, f)
           ELSE IF (a.t = "number" /\ a.v = 0) \/ (a.t = "string" /\ a.v = "")
                THEN NotInQuery(c, f)
                ELSE InQuery(c, f)

\* get_sessions asked with limit 0 and minDuration 0: the query is the
\* minimum duration alone, with neither the limit nor the default offset 0
C27_Witness ==
  /\ calls[1].name = "get_sessions"
  /\ DOMAIN BagOf(1) = {"limit", "minDuration"}
  /\ BagOf(1).limit = Num(0) /\ BagOf(1).minDuration = Num(0)
  /\ calls[1].fetches # <<>>
  /\ UrlOf(1) = "https://lcontext.com/api/mcp/sessions?minDuration=0"

----------------------------------------------------------------------------
(* Properties of the Tool Catalog and the dispatcher (SpecCatalog) *)

\* the path of the url call c requested, and the tool whose endpoint it is
PathOf(c) == UpTo(UrlAfter(c, ""), {"?"})

RoutedTool(path) ==
  CASE path = "/api/mcp/pages" -> "list_pages"
    [] StartsWith(path, "/api/mcp/pages/") -> "get_page_context"
    [] path = "/api/mcp/elements" -> "get_element_context"
    [] path = "/api/mcp/app-context" -> "get_app_context"
    [] path = "/api/mcp/visitors" -> "get_visitors"
    [] StartsWith(path, "/api/mcp/visitors/") -> "get_visitor_detail"
    [] path = "/api/mcp/sessions" -> "get_sessions"
    [] StartsWith(path, "/api/mcp/sessions/") -> "get_session_detail"
    [] path = "/api/mcp/flows" -> "get_user_flows"
    [] OTHER -> "(none)"

UnknownToolEnvelope(c) == Failure(<<"Unknown tool: " \o calls[c].name>>)

\* C28: the names the dispatcher handles are the names of the Tool Catalog and
\* the catalog names are pairwise distinct: a call by a catalog name goes to
\* the schema, endpoint and formatter of that tool and never to "Unknown
\* tool", a call by any other name returns the "Unknown tool" envelope, and
\* tool discovery returns the same catalog every time.
C28_CatalogIsDispatched ==
  /\ ListToolsNames = ToolNames
  /\ \A i \in 1..Len(ToolCatalog), j \in 1..Len(ToolCatalog) :
       ToolCatalog[i] = ToolCatalog[j] => i = j
  /\ \A k \in 1..Len(proc.listed) : proc.listed[k] = ToolCatalog
  /\ \A c \in CallIds :
       Invoked(c) =>
         IF calls[c].name \in ListToolsNames
         THEN /\ Done(c) => EnvelopeOf(c) # UnknownToolEnvelope(c)
              /\ calls[c].fetches # <<>> => RoutedTool(PathOf(c)) = calls[c].name
              /\ Reported(c) => LinesOf(c) = FormatOf(calls[c].name, DataOf(c)).text
         ELSE /\ Done(c)
              /\ calls[c].envelopes = <<UnknownToolEnvelope(c)>>
              /\ calls[c].fetches = <<>>

\* the catalog was listed twice and a get_user_flows call between went to
\* the flows endpoint and came back as the flows report
C28_Witness ==
  /\ Len(proc.listed) = 2 /\ proc.listed[1] = proc.listed[2]
  /\ "get_user_flows" \in ListToolsNames
  /\ calls[1].name = "get_user_flows" /\ Reported(1)
  /\ PathOf(1) = "/api/mcp/flows"
  /\ StartsWith(TextOf(1), "## User Journey Patterns")

----------------------------------------------------------------------------
(* Properties of the reports across machines (SpecHost) *)

\* C12: formatting is deterministic and depends on nothing but the payload:
\* any two calls of the same tool that were answered with the same payload
\* return the same text, in whatever order they ran and whatever ran between.
C12_TextFromPayloadOnly ==
  \A c \in CallIds, d \in CallIds :
    (/\ Reported(c) /\ Reported(d)
     /\ calls[c].name = calls[d].name
     /\ DataOf(c) = DataOf(d))
    => LinesOf(c) = LinesOf(d)

----------------------------------------------------------------------------
(* Properties of the session report (SpecFmt) *)

\* the events of the session call c was answered with, and the lines of the
\* report that render click events, in order
EventsOf(c) == DataOf(c).session.events
ClickEvents(c) == Filter(EventsOf(c), LAMBDA e : Has(e, "type") /\ e.type = "click")
ClickLines(c) == Filter(LinesOf(c), LAMBDA l : StartsWith(l, "- **click**"))

\* what the line of a click event starts with: the type and the time
ClickHead(event) ==
  "- **click**"
  \o (IF TruthyStr(event, "timestamp")
      THEN " (" \o toLocaleTimeString(event, "timestamp") \o ")" ELSE "")

\* "L" <T> #I for the data of a click event: a part that is missing is left
\* out, but for the tag, which is then UNKNOWN
ClickParts(d) ==
  (IF TruthyStr(d, "label") THEN " \"" \o d.label \o "\"" ELSE "")
  \o (IF TruthyStr(d, "tagName") THEN " <" \o d.tagName \o ">" ELSE " <UNKNOWN>")
  \o (IF TruthyStr(d, "id") THEN " #" \o d.id ELSE "")

\* line is head, then parts, then anything that does not go on with an id
ClickRendered(line, head, d) ==
  LET start == head \o ClickParts(d)
      rest == SubSeq(line, Len(start) + 1, Len(line))
  IN /\ StartsWith(line, start)
     /\ (~TruthyStr(d, "id")) => ~StartsWith(rest, " #")

HasEvents(c) ==
  /\ Reported(c) /\ calls[c].name = "get_session_detail"
  /\ Has(DataOf(c), "session") /\ Has(DataOf(c).session, "events")

\* C13: in the session-detail report every click event with data has a line
\* of its own, in the order of the events, that reads "L" (in double quotes),
\* <T> and #I in that order for the label L, tagName T and id I of the data;
\* a missing tagName reads <UNKNOWN>, a missing label or id is left out and
\* the other parts stay as they are.
C13_ClickEventLine ==
  \A c \in CallIds :
    HasEvents(c) =>
      /\ Len(ClickLines(c)) = Len(ClickEvents(c))
      /\ \A k \in 1..Len(ClickEvents(c)) :
           Has(ClickEvents(c)[k], "data") =>
             ClickRendered(ClickLines(c)[k], ClickHead(ClickEvents(c)[k]),
                           ClickEvents(c)[k].data)

\* a report of two click events, one with an id only and one with a label only
C13_Witness ==
  /\ HasEvents(1)
  /\ Len(ClickEvents(1)) = 2
  /\ HasLine(1, "- **click** (12:00:00 AM) <UNKNOWN> #buy-btn")
  /\ HasLine(1, "- **click** (12:00:00 AM) \"Buy\" <UNKNOWN>")

\* the web_vital events of the session and the lines that render them
VitalEvents(c) == Filter(EventsOf(c), LAMBDA e : Has(e, "type") /\ e.type = "web_vital")
VitalLines(c) == Filter(LinesOf(c), LAMBDA l : StartsWith(l, "- **web_vital**"))

VitalHead(event) ==
  "- **web_vital**"
  \o (IF TruthyStr(event, "timestamp")
      THEN " (" \o toLocaleTimeString(event, "timestamp") \o ")" ELSE "")

\* C24: in the session-detail report a web_vital event with metric "CLS" is
\* rendered as a ratio with 3 decimal places and no "ms", and a web_vital
\* event with any other metric with its value followed by "ms".
C24_VitalUnits ==
  \A c \in CallIds :
    HasEvents(c) =>
      /\ Len(VitalLines(c)) = Len(VitalEvents(c))
      /\ \A k \in 1..Len(VitalEvents(c)) :
           LET e == VitalEvents(c)[k]
               line == VitalLines(c)[k]
           IN IF e.data.metric = "CLS"
              THEN /\ StartsWith(line, VitalHead(e) \o " CLS=" \o Fixed3(1000 * e.data.value))
                   /\ ~Contains(line, "ms")
              ELSE StartsWith(line, VitalHead(e) \o " " \o e.data.metric \o "="
                                    \o ToString(e.data.value) \o "ms")

\* the pages call c listed and the rows of the report, one per page in order
HasPages(c) ==
  /\ Reported(c) /\ calls[c].name = "list_pages"
  /\ Has(DataOf(c), "pages") /\ Len(DataOf(c).pages) > 0

PageRows(c) == Filter(LinesOf(c), LAMBDA l : StartsWith(l, "- **"))

\* C26: in the list_pages report the row of a page whose view count is 0
\* shows the bounce rate 0, not a placeholder or an error text.
C26_ZeroViewsBounceZero ==
  \A c \in CallIds :
    HasPages(c) =>
      /\ Len(PageRows(c)) = Len(DataOf(c).pages)
      /\ \A k \in 1..Len(PageRows(c)) :
           LET page == DataOf(c).pages[k]
           IN (Has(page, "viewCount") /\ page.viewCount = 0) =>
                Contains(PageRows(c)[k], ", Bounce: 0%")

----------------------------------------------------------------------------
(* Properties of the calls in time (SpecLive) *)

\* C15: a tool call never hangs: every call that was invoked eventually
\* returns an envelope, also when the backend cannot be reached or never
\* answers; the handler never waits for ever on its remote request.
C15_EveryCallReturns == \A c \in CallIds : Invoked(c) ~> Done(c)

----------------------------------------------------------------------------
(* Properties of apiRequest with options (SpecApi) *)

----------------------------------------------------------------------------
(* Properties of the process (SpecBoot) *)

ServingAsked == proc.argv \cap {"--version", "-v", "--help", "-h", "--update"} = {}

\* C21: a missing credential is fatal at start-up: when serving is asked for
\* (no --version, --help or --update) and LCONTEXT_API_KEY is absent, the
\* process exits with code 1 before the transport is connected, so that a
\* process without a credential never serves a discovery or a tool call.
C21_NoKeyNoServing ==
  (API_KEY = NoKey /\ proc.pc # "off" /\ ServingAsked) =>
    /\ proc.pc = "exited" /\ proc.exit = 1
    /\ ~proc.connected
    /\ proc.listed = <<>>
    /\ \A c \in CallIds : ~Invoked(c)

C21_Witness ==
  /\ API_KEY = NoKey /\ proc.argv = {"--verbose"}
  /\ proc.pc = "exited" /\ proc.exit = 1 /\ ~proc.connected

\* C22: the update check of start-up never blocks or fails the tool calls:
\* whatever becomes of it (success, non-OK status, network failure, abort by
\* the 3 s timer, malformed release JSON) main goes on to connect without
\* waiting for it, a connected process keeps serving, and every tool call
\* returns the envelope it returns on its own.
C22_CheckNeverInTheWay ==
  /\ proc.pc = "connecting" => ENABLED Connect
  /\ proc.connected => proc.pc = "serving"
  /\ \A c \in CallIds :
       Invoked(c) =>
         /\ calls[c].escaped = <<>>
         /\ IF AloneStart(c).kind = "fetch"
            THEN calls[c].responses # <<>> =>
                   Done(c) /\ calls[c].envelopes = <<AloneFinish(c).envelope>>
            ELSE Done(c) /\ calls[c].envelopes = <<AloneStart(c).envelope>>

\* a call was answered with a report while the check was still pending
C22_Witness ==
  /\ proc.pc = "serving" /\ proc.check = "fetching"
  /\ Reported(1) /\ ~Invoked(2)

----------------------------------------------------------------------------
(* Properties of one call's requests (SpecPair) *)

\* call c is turned down before apiRequest sends anything: by its name, by
\* the schema, by the precondition of get_element_context, or for want of a key
TurnedDown(c) ==
  \/ calls[c].name \notin ToolNames
  \/ LET parsed == ZodParse(SchemaOf(calls[c].name),
                            ParseInput(calls[c].name, calls[c].arguments))
     IN \/ ~parsed.ok
        \/ calls[c].name = "get_element_context" /\ NeitherIdentifierSet(c)
  \/ API_KEY = NoKey

\* C23: a call runs straight through with no retry: it sends at most one
\* remote request, none when its name, its arguments, the precondition or a
\* missing key turn it down and exactly one otherwise, and a request that
\* failed (transport, status or decoding) is not sent again: the call ends
\* with the first answer.
C23_AtMostOneRequest ==
  \A c \in CallIds :
    Invoked(c) =>
      /\ Len(calls[c].fetches) = (IF TurnedDown(c) THEN 0 ELSE 1)
      /\ Len(calls[c].responses) <= Len(calls[c].fetches)
      /\ calls[c].responses # <<>> => Done(c)
      /\ calls[c].fetches = <<>> => Done(c)

\* a request failed with status 500 and the call ended with the error, having
\* sent one request
C23_Witness ==
  /\ Done(1) /\ Len(calls[1].fetches) = 1
  /\ calls[1].responses # <<>> /\ calls[1].responses[1].kind = "http"
  /\ calls[1].responses[1].status = 500
  /\ IsErrorShape(EnvelopeOf(1))

----------------------------------------------------------------------------
(* Properties of the decoding of the response (SpecDecode) *)

\* call c was answered 2xx with a body that JSON.parse rejects
BadJson(c) ==
  /\ calls[c].responses # <<>>
  /\ calls[c].responses[1].kind = "http"
  /\ calls[c].responses[1].status \in 200..299
  /\ ~calls[c].responses[1].json

BodyOf(c) == calls[c].responses[1].body

\* C25: when the body of a 2xx response is not valid JSON the error carries a
\* snippet that is a prefix of the raw body of at most 200 characters: the
\* whole body and no marker when it has at most 200 characters, its first 200
\* characters and then "..." when it has more; the call returns an error
\* envelope with that message.
C25_SnippetOfBody ==
  \A c \in CallIds :
    BadJson(c) =>
      /\ Done(c) /\ IsErrorShape(EnvelopeOf(c))
      /\ TextOf(c) = "Error: Invalid JSON response from API: "
                     \o (IF Len(BodyOf(c)) <= 200 THEN BodyOf(c)
                         ELSE SubSeq(BodyOf(c), 1, 200) \o "...")

\* a body of 201 characters was cut to 200 and marked
C25_Witness ==
  /\ BadJson(1) /\ Len(BodyOf(1)) = 201
  /\ Len(TextOf(1)) = Len("Error: Invalid JSON response from API: ") + 203

----------------------------------------------------------------------------
(* Properties of the self-update (SpecUpdate) *)

\* a complete executable, of the running version or of the release
Executables == {"old", "new"}

\* C30: in a process run with --update, at every point of the binary swap
\* and after a failure at any step, a complete executable (old or new) is at
\* the executable path or at the .backup path, a partly written file is
\* nowhere but at the .new path, and the MCP server is never started.
C30_SwapKeepsExecutable ==
  "--update" \in proc.argv =>
    /\ disk.exec \in Executables \/ disk.backup \in Executables
    /\ disk.exec # "partial" /\ disk.backup # "partial"
    /\ ~proc.connected /\ proc.pc \notin {"connecting", "serving"}

====
